---- MODULE Spec2Model ----
(***************************************************************************)
(* Verification model of the beatrice packet-capture SDK: the four capture *)
(* backends (AF_PACKET, AF_XDP, DPDK, PMD), the XDP program loader and the *)
(* AF_XDP ring protocol.                                                   *)
(*                                                                         *)
(* Every backend object is one record variable whose fields are the        *)
(* object's data members.  The kernel and the DPDK framework are the       *)
(* environment: their calls succeed or fail nondeterministically, and the  *)
(* descriptors, mappings and attachments they hand out are tracked in      *)
(* kernel-side variables so that leaks and stale flags are observable.     *)
(***************************************************************************)
EXTENDS Integers, Sequences, FiniteSets, TLC

\* ------------------------------------------------------------------ bounds
\* Per-process descriptor limit (RLIMIT_NOFILE): socket()/open() fail with
\* EMFILE once this many descriptors are open.
MaxFds == 4
\* Number of frames the wire delivers during one behaviour.
MaxPackets == 2
\* Number of successful start() calls explored in one behaviour.
MaxStarts == 2
\* Number of virtual devices added to one PMD backend.
MaxVdevs == 1
\* Largest numBuffers of the ring model; the ring sizes are 2 and 4.
MaxBuffers == 3
\* Number of frames the kernel delivers to the rings in one behaviour.
MaxFrames == 3
\* Number of distinct frame contents.
MaxPayload == 2
\* Width in bits of the ring indices (uint32_t in the source).
IndexBits == 4
\* Largest DMA buffer size and buffer count passed by a caller, the size in
\* units of the default buffer size.
MaxDmaSize == 2
MaxDmaCount == 2
\* Number of enableZeroCopy calls explored in one behaviour.
MaxToggles == 2
\* Largest timeout passed to a blocking pull, and the last clock value, in
\* clock units.
MaxTimeout == 1
MaxClock == 3
\* Number of failing rte_eal_init calls explored in one behaviour.
MaxEalInits == 2
\* Largest filter priority, and the number of applyFilters calls counted by
\* the statistics in one behaviour.
MaxPriority == 1
MaxApplied == 1
\* Threads that call getProtocol, and the getProtocol calls that find a
\* given name before its usage count is set to 0 again.
MaxReaders == 2
MaxGets == 2
\* Longest packet given to the parser, largest field offset, longest parse
\* duration in microseconds, and the parsePacket calls by name and by
\* definition explored in one behaviour.
MaxPacketLen == 3
MaxFieldOffset == 1
MaxParseTime == 2
MaxParses == 2
MaxDirectParses == 1

\* ------------------------------------------------------------- vocabulary
Kinds == {"AF_PACKET", "AF_XDP", "DPDK", "PMD"}
FilterNames == {"a", "b"}

\* Interface names handed to initialize/updateConfig: the empty name, two
\* interfaces that exist on the host (a physical one and a veth) and one
\* that does not exist.
Interfaces == {"", "eth0", "veth0", "nodev0"}
ExistingInterfaces == {"eth0", "veth0"}

NoFd == -1

\* The descriptor socket()/open() returns: the lowest one not in use.
LowestFreeFd(open) == CHOOSE f \in 1..MaxFds : f \notin open /\ \A g \in 1..(f - 1) : g \in open

VARIABLES
    kind,       \* the backend class under test, fixed at construction
    ctl,        \* position of the application thread that drives the backend
    call,       \* the last API call that returned, and what it returned
    fds,        \* kernel: descriptors currently open in the process
    thread,     \* processingThread_: position of the capture thread
    cur,        \* capture thread local: the packet being processed
    rxSeq,      \* wire: frames received so far, in RX order
    pulled,     \* consumer: packets returned by nextPacket/getPackets so far
    pushed,     \* sink: packets handed to the push callback so far
    starts,     \* number of start() calls that launched a capture thread
    pkt,        \* the AF_PacketBackend object
    xdp,        \* the AF_XDPBackend object
    loader,     \* XDPLoader::loadedPrograms_ of the backend's xdpLoader_
    xdpAttached,\* kernel: interfaces that have an XDP program attached
    lastBind,   \* kernel: the last successful bind() of an AF_XDP socket
    dpdk,       \* the DPDKBackend object
    pmd,        \* the PMDBackend object
    eal,        \* DPDK framework: the EAL and the state of port 0
    xsk,        \* the AF_XDP rings, the UMEM and the capture thread's position
                \* in the real-mode loop
    dma,        \* the zero-copy and DMA members of the backend under test
    mem,        \* kernel / DPDK heap: the memory held for the DMA buffer set
    zc,         \* the arguments of the enableZeroCopy calls accepted so far
    worker,     \* a second application thread: inside a pull or updateConfig
    clock,      \* steady_clock, in units of 50 ms
    stats,      \* stats_ of the backend under test
    seen,       \* the last getStatistics() snapshot since resetStatistics()
    loaded,     \* capture thread of AF_XDPBackend: the counter it has read
                \* and is about to write back
    filters,    \* PacketFilter::filters_
    filterStats,\* PacketFilter::stats_
    verdict,    \* the outcome of the last applyFilters call, with the packet
                \* it was given and the filters it evaluated, in order
    range,      \* the last isIPInRange call: its arguments and its result
    registry,   \* ProtocolRegistry: protocols_ and usageCount_
    readers,    \* the threads inside getProtocol: position, name, count read
    prior,      \* the name given to the last registerProtocol or
                \* unregisterProtocol call, and the registry as it was before
                \* the last registerProtocol call
    gets,       \* per name, the getProtocol calls that returned its definition
                \* since its usage count was last set to 0
    parser,     \* ProtocolParser: protocols_, stats_, and whether the process
                \* that owns it is still alive
    parse,      \* the last parsePacket call: its ParseResult, the definition
                \* and the packet it was given
    parses,     \* per protocol name, the parsePacket calls made so far
    pool,       \* ThreadPool: the queues, the flags, each worker's position,
                \* and the tasks accepted, executed and dropped so far
    ctx         \* BeatriceContext: the static running_ and, per context, its
                \* position, the batches it has dispatched, and whether it
                \* has been shut down or a signal has arrived since it exists

filterVars == <<filters, filterStats, verdict>>
registryVars == <<registry, readers, prior, gets>>
parserVars == <<parser, parse, parses>>
libVars == <<filterVars, range, registryVars, parserVars, pool, ctx>>
common == <<libVars, kind, ctl, call, fds, thread, cur, rxSeq, pulled, pushed, starts>>
xdpVars == <<xdp, loader, xdpAttached, lastBind>>
dpdkVars == <<dpdk, pmd, eal>>
dmaVars == <<dma, mem, zc>>
appVars == <<worker, clock>>
statVars == <<stats, seen, loaded>>
aux == <<dmaVars, appVars, statVars>>
notPkt == <<xdpVars, dpdkVars, xsk, aux>>
notXdp == <<pkt, dpdkVars, xsk, aux>>
notDpdk == <<pkt, xdpVars, xsk, aux>>
vars == <<common, pkt, xdpVars, dpdkVars, xsk, aux>>
notCall == <<kind, ctl, fds, thread, cur, rxSeq, pulled, pushed, starts,
             pkt, xdpVars, dpdkVars, xsk, aux>>
notFilter == <<notCall, range, registryVars, parserVars, pool, ctx>>
notRegistry == <<notCall, filterVars, range, parserVars, pool, ctx>>
notParser == <<notCall, filterVars, range, registryVars, pool, ctx>>
notPool == <<notCall, call, filterVars, range, registryVars, parserVars, ctx>>
notContext == <<notCall, call, filterVars, range, registryVars, parserVars, pool>>

Return(op, result) == [op |-> op, result |-> result, tick |-> ~call.tick]

\* ICaptureBackend::Statistics as its default member initializers leave it.
\* The derived rates and the timestamp are not modelled.
Statistics ==
    [packetsCaptured |-> 0, packetsDropped |-> 0, bytesCaptured |-> 0,
     bytesDropped |-> 0]

\* The length of the frame with sequence number id: later frames are shorter.
FrameLength(id) == MaxPackets + 1 - id

\* A counter update that stores the length of the frame instead of adding it.
CountFrame_assign(s, length) ==
    [s EXCEPT !.packetsCaptured = @ + 1, !.bytesCaptured = length]

\* stats_.packetsCaptured++; stats_.bytesCaptured += length, with
\* statsMutex_ held.
CountFrame(s, length) ==
    [s EXCEPT !.packetsCaptured = @ + 1, !.bytesCaptured = @ + length]

\* The zero-copy and DMA members as the constructors initialize them: the
\* four classes agree except for zeroCopyEnabled_, which AF_PacketBackend
\* starts as false and the other three as true.
DMA_ctor(k) ==
    [zeroCopyEnabled |-> k # "AF_PACKET", dmaAccessEnabled |-> FALSE,
     dmaDevice |-> "", dmaBufferSize |-> 0, dmaBuffers |-> "null",
     dmaBufferCount |-> 0, dmaFd |-> NoFd]

\* No memory is held for DMA buffers: `mapped` is the length of the region
\* mmap/rte_malloc handed out and that has not been given back; `stray` is
\* set when a munmap reached past the end of that region.
NoMem == [mapped |-> 0, stray |-> FALSE]

\* The second application thread is outside every backend call.
WorkerIdle == [pc |-> "idle"]

\* condition_variable::notify_all(): a thread blocked in wait_for wakes and
\* will evaluate its predicate again.  `byStop` tells that the caller is
\* stop(), which the waiter remembers in `cancelled` when it was blocked.
notify_all(w, byStop) ==
    IF w.pc = "blocked"
    THEN [w EXCEPT !.pc = "check", !.cancelled = @ \/ byStop]
    ELSE w

\* packetQueueMutex_ is held by the second application thread.
QueueLocked == worker.pc \in {"check", "blocking"}

\* ================================================ DMA buffer set, memory
\* setDMABufferSize(0) selects the backend's default buffer size: one unit.
AutoDMABufferSize == 1

DmaDevices == {"", "/dev/dma0"}

\* munmap(base, len) on the region of `m.mapped` units that starts at base:
\* EINVAL, and nothing unmapped, when base is MAP_FAILED or len is 0; else
\* the first len units go, and a len past the end of the region reaches
\* into whatever is mapped behind it.
munmap(m, base, len) ==
    IF base # "mapped" \/ len = 0 THEN m
    ELSE [mapped |-> IF len < m.mapped THEN m.mapped - len ELSE 0,
          stray |-> m.stray \/ len > m.mapped]

\* allocateDMABuffers(count) of AF_XDPBackend, and of AF_PacketBackend
\* (whose extra test of dmaDevice_ is always true when DMA access is
\* enabled): open the device, mmap count * dmaBufferSize_ bytes.  A failed
\* open leaves -1 in dmaFd_; a failed mmap (fail = "mmap", or a length of
\* zero) leaves MAP_FAILED in dmaBuffers_ and closes the device.
AF_XDPBackend_allocateDMABuffers(d, open, m, count, fail) ==
    IF ~d.dmaAccessEnabled \/ d.dmaBuffers # "null"
    THEN [result |-> "INVALID_ARGUMENT", dma |-> d, fds |-> open, mem |-> m]
    ELSE IF fail = "open" \/ Cardinality(open) = MaxFds
    THEN [result |-> "INITIALIZATION_FAILED", dma |-> [d EXCEPT !.dmaFd = NoFd],
          fds |-> open, mem |-> m]
    ELSE IF fail = "mmap" \/ count * d.dmaBufferSize = 0
    THEN [result |-> "INITIALIZATION_FAILED",
          dma |-> [d EXCEPT !.dmaBuffers = "MAP_FAILED", !.dmaFd = NoFd],
          fds |-> open, mem |-> m]
    ELSE [result |-> "SUCCESS",
          dma |-> [d EXCEPT !.dmaBuffers = "mapped", !.dmaBufferCount = count,
                            !.dmaFd = LowestFreeFd(open)],
          fds |-> open \cup {LowestFreeFd(open)},
          mem |-> [m EXCEPT !.mapped = count * d.dmaBufferSize]]

\* allocateDMABuffers(count) of DPDKBackend and of PMDBackend:
\* rte_malloc_socket(count * dmaBufferSize_), which returns NULL for a size
\* of zero, without an initialized EAL, or when the heap is exhausted.
DPDKBackend_allocateDMABuffers(d, e, m, count, fail) ==
    IF ~d.dmaAccessEnabled \/ d.dmaBuffers # "null"
    THEN [result |-> "INVALID_ARGUMENT", dma |-> d, mem |-> m]
    ELSE IF fail = "mmap" \/ ~e.up \/ count * d.dmaBufferSize = 0
    THEN [result |-> "INITIALIZATION_FAILED", dma |-> d, mem |-> m]
    ELSE [result |-> "SUCCESS",
          dma |-> [d EXCEPT !.dmaBuffers = "mapped", !.dmaBufferCount = count],
          mem |-> [m EXCEPT !.mapped = count * d.dmaBufferSize]]

\* freeDMABuffers() of AF_XDPBackend and of AF_PacketBackend: nothing when
\* dmaBuffers_ is null; else munmap(dmaBuffers_, dmaBufferCount_ *
\* dmaBufferSize_) (a failure is only logged), close the device, clear
\* dmaBuffers_ and dmaBufferCount_.
AF_XDPBackend_freeDMABuffers(d, open, m) ==
    IF d.dmaBuffers = "null" THEN [dma |-> d, fds |-> open, mem |-> m]
    ELSE [dma |-> [d EXCEPT !.dmaBuffers = "null", !.dmaBufferCount = 0,
                            !.dmaFd = NoFd],
          fds |-> IF d.dmaFd >= 0 THEN open \ {d.dmaFd} ELSE open,
          mem |-> munmap(m, d.dmaBuffers, d.dmaBufferCount * d.dmaBufferSize)]

\* freeDMABuffers() of DPDKBackend and of PMDBackend: rte_free(dmaBuffers_)
\* gives back the whole allocation.
DPDKBackend_freeDMABuffers(d, m) ==
    IF d.dmaBuffers = "null" THEN [dma |-> d, mem |-> m]
    ELSE [dma |-> [d EXCEPT !.dmaBuffers = "null", !.dmaBufferCount = 0],
          mem |-> [m EXCEPT !.mapped = 0]]

\* ===================================================== AF_PacketBackend
AF_PacketBackend_ctor ==
    [running |-> FALSE, initialized |-> FALSE, interface |-> "",
     socketFd |-> NoFd, lastError |-> "", packetQueue |-> <<>>,
     packetCallback |-> FALSE, blockingMode |-> FALSE, nonblock |-> FALSE]

AF_PacketBackend_validateInterface(interface) == interface # ""

\* initialize(config): validate, create the socket, bind it, set its options
\* (O_NONBLOCK unless blockingMode_ is set; `nonblock` is that flag of the
\* socket).  `fail` is the kernel call that fails, if any.
AF_PacketBackend_initialize ==
    /\ kind = "AF_PACKET" /\ ctl = "idle"
    /\ \E interface \in Interfaces, fail \in {"none", "socket", "bind", "sockopt"} :
        IF pkt.initialized
        THEN /\ fail = "none" /\ interface = "eth0"
             /\ call' = Return("initialize", "SUCCESS")
             /\ UNCHANGED <<pkt, fds>>
        ELSE IF ~AF_PacketBackend_validateInterface(interface)
        THEN /\ fail = "none"
             /\ pkt' = [pkt EXCEPT !.interface = interface]
             /\ call' = Return("initialize", "INVALID_ARGUMENT")
             /\ UNCHANGED fds
        ELSE IF fail = "socket" \/ Cardinality(fds) = MaxFds
        THEN /\ fail = "socket"
             /\ pkt' = [pkt EXCEPT !.interface = interface, !.socketFd = NoFd,
                                   !.lastError = "socket"]
             /\ call' = Return("initialize", "INITIALIZATION_FAILED")
             /\ UNCHANGED fds
        ELSE LET fd == LowestFreeFd(fds) IN
             /\ fds' = fds \cup {fd}
             /\ IF fail = "bind" \/ interface \notin ExistingInterfaces
                THEN /\ fail = "bind"
                     /\ pkt' = [pkt EXCEPT !.interface = interface, !.socketFd = fd,
                                           !.lastError = "bind"]
                     /\ call' = Return("initialize", "INITIALIZATION_FAILED")
                ELSE IF fail = "sockopt"
                THEN /\ pkt' = [pkt EXCEPT !.interface = interface, !.socketFd = fd,
                                           !.lastError = "sockopt"]
                     /\ call' = Return("initialize", "INITIALIZATION_FAILED")
                ELSE /\ pkt' = [pkt EXCEPT !.interface = interface, !.socketFd = fd,
                                           !.nonblock = ~pkt.blockingMode,
                                           !.initialized = TRUE]
                     /\ call' = Return("initialize", "SUCCESS")
    /\ UNCHANGED <<libVars, kind, ctl, thread, cur, rxSeq, pulled, pushed, starts, notPkt>>

\* start(): refuse when not initialized, no-op when running, else launch the
\* capture thread.
AF_PacketBackend_start ==
    /\ kind = "AF_PACKET" /\ ctl = "idle"
    /\ IF ~pkt.initialized
       THEN /\ call' = Return("start", "INITIALIZATION_FAILED")
            /\ UNCHANGED <<pkt, thread, starts>>
       ELSE IF pkt.running
       THEN /\ call' = Return("start", "SUCCESS")
            /\ UNCHANGED <<pkt, thread, starts>>
       ELSE /\ starts < MaxStarts
            /\ pkt' = [pkt EXCEPT !.running = TRUE]
            /\ thread' = "loop"
            /\ starts' = starts + 1
            /\ call' = Return("start", "SUCCESS")
    /\ UNCHANGED <<libVars, kind, ctl, fds, cur, rxSeq, pulled, pushed, notPkt>>

\* stop(), up to the join: clear running_, notify_all() on packetCondition_,
\* then block in join() while the capture thread is joinable.
AF_PacketBackend_stop ==
    /\ kind = "AF_PACKET" /\ ctl = "idle"
    /\ IF ~pkt.running
       THEN /\ call' = Return("stop", "SUCCESS")
            /\ UNCHANGED <<pkt, ctl, worker>>
       ELSE /\ pkt' = [pkt EXCEPT !.running = FALSE]
            /\ worker' = notify_all(worker, TRUE)
            /\ IF thread # "none"
               THEN ctl' = "stop_join" /\ UNCHANGED call
               ELSE ctl' = "idle" /\ call' = Return("stop", "SUCCESS")
    /\ UNCHANGED <<libVars, kind, fds, thread, cur, rxSeq, pulled, pushed, starts,
                   xdpVars, dpdkVars, xsk, dmaVars, clock, statVars>>

\* stop(), after the join returned.
AF_PacketBackend_stop_joined ==
    /\ kind = "AF_PACKET" /\ ctl = "stop_join" /\ thread = "exited"
    /\ thread' = "none"
    /\ ctl' = "idle"
    /\ call' = Return("stop", "SUCCESS")
    /\ UNCHANGED <<libVars, kind, fds, cur, rxSeq, pulled, pushed, starts, pkt, notPkt>>

\* What shutdown() does after its stop() returned: close the socket, free
\* the DMA buffers when dmaBuffers_ is set, clear initialized_.
AF_PacketBackend_shutdown_release ==
    /\ LET open == IF pkt.socketFd # NoFd THEN fds \ {pkt.socketFd} ELSE fds
           r == AF_XDPBackend_freeDMABuffers(dma, open, mem)
       IN  fds' = r.fds /\ dma' = r.dma /\ mem' = r.mem
    /\ pkt' = [pkt EXCEPT !.socketFd = NoFd, !.initialized = FALSE, !.running = FALSE]
    /\ ctl' = "destroyed"
    /\ call' = Return("dtor", "SUCCESS")

\* ~AF_PacketBackend() -> shutdown(): stop(), then release.
AF_PacketBackend_dtor ==
    /\ kind = "AF_PACKET" /\ ctl = "idle"
    /\ IF pkt.running /\ thread # "none"
       THEN /\ pkt' = [pkt EXCEPT !.running = FALSE]
            /\ ctl' = "dtor_join"
            /\ UNCHANGED <<call, fds, dma, mem>>
       ELSE AF_PacketBackend_shutdown_release
    /\ UNCHANGED <<libVars, kind, thread, cur, rxSeq, pulled, pushed, starts,
                   xdpVars, dpdkVars, xsk, zc, appVars, statVars>>

AF_PacketBackend_dtor_joined ==
    /\ kind = "AF_PACKET" /\ ctl = "dtor_join" /\ thread = "exited"
    /\ thread' = "none"
    /\ AF_PacketBackend_shutdown_release
    /\ UNCHANGED <<libVars, kind, cur, rxSeq, pulled, pushed, starts,
                   xdpVars, dpdkVars, xsk, zc, appVars, statVars>>

\* packetProcessingLoop, the loop test: while (running_).
AF_PacketBackend_loop_test ==
    /\ kind = "AF_PACKET" /\ thread = "loop"
    /\ thread' = IF pkt.running THEN "recv" ELSE "exited"
    /\ UNCHANGED <<libVars, kind, ctl, call, fds, cur, rxSeq, pulled, pushed, starts, pkt, notPkt>>

\* packetProcessingLoop, recv(): a frame (bytesRead > 0), nothing yet
\* (EAGAIN/EWOULDBLOCK, which only a socket with O_NONBLOCK reports; a
\* blocking socket keeps the thread in recv) or a terminal error, after
\* which the loop breaks with lastError_ set.  A frame is counted in stats_
\* under statsMutex_ before it is queued.
AF_PacketBackend_recv_outcome(outcome) ==
    /\ kind = "AF_PACKET" /\ thread = "recv"
    /\  \/ outcome = "frame"
        \/ outcome = "again" /\ pkt.nonblock
        \/ outcome = "error"
    /\ \E o \in {outcome} :
        CASE o = "frame" ->
                /\ Len(rxSeq) < MaxPackets
                /\ rxSeq' = Append(rxSeq, Len(rxSeq) + 1)
                /\ cur' = Len(rxSeq) + 1
                /\ stats' = CountFrame(stats, FrameLength(Len(rxSeq) + 1))
                /\ thread' = "enqueue"
                /\ UNCHANGED pkt
          [] o = "again" ->
                /\ thread' = "loop"
                /\ UNCHANGED <<rxSeq, cur, pkt, stats>>
          [] o = "error" ->
                /\ pkt' = [pkt EXCEPT !.lastError = "recv"]
                /\ thread' = "exited"
                /\ UNCHANGED <<rxSeq, cur, stats>>
    /\ UNCHANGED <<libVars, kind, ctl, call, fds, pulled, pushed, starts,
                   xdpVars, dpdkVars, xsk, dmaVars, appVars, seen, loaded>>

AF_PacketBackend_recv == \E outcome \in {"frame", "again", "error"} :
    AF_PacketBackend_recv_outcome(outcome)

\* setBlockingMode(blocking): refused while running, else recorded; it takes
\* effect in the next setSocketOptions().
AF_PacketBackend_setBlockingMode ==
    /\ kind = "AF_PACKET" /\ ctl = "idle"
    /\ \E blocking \in BOOLEAN :
        IF pkt.running
        THEN /\ blocking
             /\ call' = Return("setBlockingMode", "INVALID_ARGUMENT")
             /\ UNCHANGED pkt
        ELSE /\ pkt' = [pkt EXCEPT !.blockingMode = blocking]
             /\ call' = Return("setBlockingMode", "SUCCESS")
    /\ UNCHANGED <<libVars, kind, ctl, fds, thread, cur, rxSeq, pulled, pushed, starts, notPkt>>

\* packetProcessingLoop: push the packet to packetQueue_ and notify_one()
\* on packetCondition_, both under packetQueueMutex_.
AF_PacketBackend_enqueue ==
    /\ kind = "AF_PACKET" /\ thread = "enqueue" /\ ~QueueLocked
    /\ pkt' = [pkt EXCEPT !.packetQueue = Append(@, cur)]
    /\ worker' = notify_all(worker, FALSE)
    /\ thread' = "callback"
    /\ UNCHANGED <<libVars, kind, ctl, call, fds, cur, rxSeq, pulled, pushed, starts,
                   xdpVars, dpdkVars, xsk, dmaVars, clock, statVars>>

\* packetProcessingLoop: invoke packetCallback_ under callbackMutex_ if one
\* is installed, then sleep and loop.
AF_PacketBackend_invoke_callback ==
    /\ kind = "AF_PACKET" /\ thread = "callback"
    /\ pushed' = IF pkt.packetCallback THEN Append(pushed, cur) ELSE pushed
    /\ cur' = 0
    /\ thread' = "loop"
    /\ UNCHANGED <<libVars, kind, ctl, call, fds, rxSeq, pulled, starts, pkt, notPkt>>

\* A nextPacket() that pops the newest packet instead of the oldest.
AF_PacketBackend_nextPacket_lifo ==
    /\ kind = "AF_PACKET" /\ ctl # "destroyed"
    /\ IF pkt.packetQueue # <<>>
       THEN /\ pulled' = Append(pulled, pkt.packetQueue[Len(pkt.packetQueue)])
            /\ pkt' = [pkt EXCEPT !.packetQueue = SubSeq(@, 1, Len(@) - 1)]
       ELSE UNCHANGED <<pulled, pkt>>
    /\ UNCHANGED <<libVars, kind, ctl, call, fds, thread, cur, rxSeq, pushed, starts, notPkt>>

\* nextPacket(timeout): wait for a non-empty queue, pop its front; none when
\* the wait times out.
AF_PacketBackend_nextPacket ==
    /\ kind = "AF_PACKET" /\ ctl # "destroyed"
    /\ IF pkt.packetQueue # <<>>
       THEN /\ pulled' = Append(pulled, Head(pkt.packetQueue))
            /\ pkt' = [pkt EXCEPT !.packetQueue = Tail(@)]
       ELSE UNCHANGED <<pulled, pkt>>
    /\ UNCHANGED <<libVars, kind, ctl, call, fds, thread, cur, rxSeq, pushed, starts, notPkt>>

\* The first n elements of s, and the rest.
Take(s, n) == SubSeq(s, 1, IF n < Len(s) THEN n ELSE Len(s))
Drop(s, n) == SubSeq(s, (IF n < Len(s) THEN n ELSE Len(s)) + 1, Len(s))

\* getPackets(maxPackets, timeout): wait for a non-empty queue, then pop
\* from the front up to maxPackets.
AF_PacketBackend_getPackets ==
    /\ kind = "AF_PACKET" /\ ctl # "destroyed"
    /\ \E maxPackets \in {2} :
        /\ pulled' = pulled \o Take(pkt.packetQueue, maxPackets)
        /\ pkt' = [pkt EXCEPT !.packetQueue = Drop(@, maxPackets)]
    /\ UNCHANGED <<libVars, kind, ctl, call, fds, thread, cur, rxSeq, pushed, starts, notPkt>>

AF_PacketBackend_setPacketCallback ==
    /\ kind = "AF_PACKET" /\ ctl = "idle"
    /\ pkt' = [pkt EXCEPT !.packetCallback = TRUE]
    /\ UNCHANGED <<libVars, kind, ctl, call, fds, thread, cur, rxSeq, pulled, pushed, starts, notPkt>>

AF_PacketBackend_removePacketCallback ==
    /\ kind = "AF_PACKET" /\ ctl = "idle"
    /\ pkt' = [pkt EXCEPT !.packetCallback = FALSE]
    /\ UNCHANGED <<libVars, kind, ctl, call, fds, thread, cur, rxSeq, pulled, pushed, starts, notPkt>>

\* isHealthy()
AF_PacketBackend_isHealthy == pkt.initialized /\ pkt.socketFd >= 0

NextAF_Packet ==
    \/ AF_PacketBackend_initialize
    \/ AF_PacketBackend_start
    \/ AF_PacketBackend_stop
    \/ AF_PacketBackend_stop_joined
    \/ AF_PacketBackend_dtor
    \/ AF_PacketBackend_dtor_joined
    \/ AF_PacketBackend_loop_test
    \/ AF_PacketBackend_recv
    \/ AF_PacketBackend_enqueue
    \/ AF_PacketBackend_invoke_callback
    \/ AF_PacketBackend_nextPacket
    \/ AF_PacketBackend_getPackets
    \/ AF_PacketBackend_setPacketCallback
    \/ AF_PacketBackend_removePacketCallback

\* ============================================================ XDPLoader
ProgramNames == {"A", "B"}
XdpModes == {"driver", "bogus"}

\* getProgramInfo(programName): index of the first tracked program of that
\* name, 0 when there is none.
XDPLoader_getProgramInfo(programs, programName) ==
    IF \E i \in 1..Len(programs) : programs[i].programName = programName
    THEN CHOOSE i \in 1..Len(programs) :
            /\ programs[i].programName = programName
            /\ \A j \in 1..(i - 1) : programs[j].programName # programName
    ELSE 0

\* isProgramAttached(interface): some tracked program of that interface has
\* its isAttached flag set.
XDPLoader_isProgramAttached(programs, interface) ==
    \E i \in 1..Len(programs) :
        programs[i].interface = interface /\ programs[i].isAttached

\* getInterfaceIndex(interface) succeeds for the interfaces of the host.
XDPLoader_getInterfaceIndex(interface) == interface \in ExistingInterfaces

\* loadBpfProgram(path, name): bpf_object__open and bpf_object__load create
\* the maps the object declares (xsks_map in xdp_program.c, one descriptor)
\* and load its program (one descriptor).  A failure closes the object and
\* with it both descriptors; on success the object is kept open and only the
\* program descriptor is handed out, so nothing ever closes the object's
\* map.
XDPLoader_loadBpfProgram(open, fail) ==
    IF fail = "load" \/ Cardinality(open) + 2 > MaxFds
    THEN [ok |-> FALSE, fds |-> open, programFd |-> NoFd]
    ELSE LET objectMapFd == LowestFreeFd(open)
             programFd == LowestFreeFd(open \cup {objectMapFd})
         IN  [ok |-> TRUE, fds |-> open \cup {objectMapFd, programFd},
              programFd |-> programFd]

\* pinMap(name + "_map", mapFd): bpf_obj_pin fails when bpffs refuses the
\* pin, which it does when the path exists: a tracked program of the same
\* name has pinned its map there.
XDPLoader_pinMap(programs, programName, fail) ==
    /\ fail # "pinmap"
    /\ \A i \in 1..Len(programs) : programs[i].programName # programName

\* loadProgram(config): load the object, create the XSK map (one
\* descriptor), pin program and map, track the program.  A failing step
\* closes the program and XSK map descriptors opened so far and returns the
\* error of that step: INTERNAL_ERROR is the error of pinMap and of no other
\* step.
XDPLoader_loadProgram(programs, open, interface, programName, fail) ==
    LET ld == XDPLoader_loadBpfProgram(open, fail) IN
    IF ~ld.ok
    THEN [ok |-> FALSE, result |-> "INITIALIZATION_FAILED", programs |-> programs,
          fds |-> open]
    ELSE IF fail = "map" \/ Cardinality(ld.fds) = MaxFds
    THEN [ok |-> FALSE, result |-> "INITIALIZATION_FAILED", programs |-> programs,
          fds |-> ld.fds \ {ld.programFd}]
    ELSE LET mapFd == LowestFreeFd(ld.fds) IN
         IF fail = "pindir"
         THEN [ok |-> FALSE, result |-> "RESOURCE_UNAVAILABLE", programs |-> programs,
               fds |-> ld.fds \ {ld.programFd}]
         ELSE IF ~XDPLoader_pinMap(programs, programName, fail)
         THEN [ok |-> FALSE, result |-> "INTERNAL_ERROR", programs |-> programs,
               fds |-> ld.fds \ {ld.programFd}]
         ELSE [ok |-> TRUE, result |-> "SUCCESS",
               programs |-> Append(programs,
                   [programFd |-> ld.programFd, mapFd |-> mapFd,
                    programName |-> programName,
                    interface |-> interface, isAttached |-> FALSE]),
               fds |-> ld.fds \cup {mapFd}]

\* The programs list with the first program of `interface` marked attached.
MarkAttached(programs, interface) ==
    IF \E i \in 1..Len(programs) : programs[i].interface = interface
    THEN LET k == CHOOSE i \in 1..Len(programs) :
                    /\ programs[i].interface = interface
                    /\ \A j \in 1..(i - 1) : programs[j].interface # interface
         IN  [programs EXCEPT ![k].isAttached = TRUE]
    ELSE programs

\* XDPLoader::attachProgram that reports success and flags the program
\* although bpf_xdp_attach failed.
XDPLoader_attachProgram_unchecked(programs, attached, interface, xdpMode, fail) ==
    IF ~XDPLoader_getInterfaceIndex(interface)
       \/ xdpMode \notin {"driver", "skb", "generic"}
    THEN [ok |-> FALSE, programs |-> programs, attached |-> attached]
    ELSE [ok |-> TRUE, programs |-> MarkAttached(programs, interface),
          attached |-> IF fail = "attach" THEN attached
                       ELSE attached \cup {interface}]

\* attachProgram(interface, programFd, xdpMode): resolve the interface, map
\* the mode to flags, bpf_xdp_attach, then mark the program attached.
XDPLoader_attachProgram(programs, attached, interface, xdpMode, fail) ==
    IF ~XDPLoader_getInterfaceIndex(interface)
       \/ xdpMode \notin {"driver", "skb", "generic"}
       \/ fail = "attach"
    THEN [ok |-> FALSE, programs |-> programs, attached |-> attached]
    ELSE [ok |-> TRUE, programs |-> MarkAttached(programs, interface),
          attached |-> attached \cup {interface}]

\* detachProgram(interface): resolve the interface and bpf_xdp_detach.  The
\* tracked programs are not touched.
XDPLoader_detachProgram(attached, interface, detachOk) ==
    IF ~XDPLoader_getInterfaceIndex(interface) \/ ~detachOk
    THEN [ok |-> FALSE, attached |-> attached]
    ELSE [ok |-> TRUE, attached |-> attached \ {interface}]

\* The elements of s that satisfy Keep, in order.
RECURSIVE SelectPrograms(_, _)
SelectPrograms(s, programName) ==
    IF s = <<>> THEN <<>>
    ELSE IF Head(s).programName = programName
         THEN SelectPrograms(Tail(s), programName)
         ELSE <<Head(s)>> \o SelectPrograms(Tail(s), programName)

\* unloadProgram(programName): detach if the first program of that name is
\* flagged attached, close its two descriptors, drop every tracked program
\* of that name.
XDPLoader_unloadProgram(programs, attached, open, programName, detachOk) ==
    LET k == XDPLoader_getProgramInfo(programs, programName) IN
    IF k = 0
    THEN [programs |-> programs, attached |-> attached, fds |-> open]
    ELSE [programs |-> SelectPrograms(programs, programName),
          attached |-> IF programs[k].isAttached
                       THEN XDPLoader_detachProgram(attached, programs[k].interface,
                                                    detachOk).attached
                       ELSE attached,
          fds |-> open \ {programs[k].programFd, programs[k].mapFd}]

\* cleanup(): for every tracked program, detach if flagged attached and
\* close its descriptors; then forget them all.
RECURSIVE XDPLoader_cleanup(_, _, _, _)
XDPLoader_cleanup(programs, attached, open, detachOk) ==
    IF programs = <<>>
    THEN [programs |-> <<>>, attached |-> attached, fds |-> open]
    ELSE LET p == Head(programs) IN
         XDPLoader_cleanup(Tail(programs),
            IF p.isAttached
            THEN XDPLoader_detachProgram(attached, p.interface, detachOk).attached
            ELSE attached,
            open \ {p.programFd, p.mapFd}, detachOk)

\* The public operations of the XDPLoader, called on the loader by itself.
\* loadProgram(config).
XDPLoader_loadProgram_call ==
    /\ kind = "AF_XDP" /\ ctl = "idle"
    /\ \E interface \in ExistingInterfaces, programName \in ProgramNames,
          fail \in {"none", "load", "map", "pindir", "pinmap"} :
        LET ld == XDPLoader_loadProgram(loader, fds, interface, programName, fail) IN
        /\ loader' = ld.programs
        /\ fds' = ld.fds
        /\ call' = Return("loadProgram", ld.result)
    /\ UNCHANGED <<libVars, kind, ctl, thread, cur, rxSeq, pulled, pushed, starts,
                   xdp, xdpAttached, lastBind, notXdp>>

\* attachProgram(interface, programFd, xdpMode).
XDPLoader_attachProgram_call ==
    /\ kind = "AF_XDP" /\ ctl = "idle"
    /\ \E interface \in ExistingInterfaces, xdpMode \in XdpModes,
          fail \in {"none", "attach"} :
        LET at == XDPLoader_attachProgram(loader, xdpAttached, interface, xdpMode, fail) IN
        /\ loader' = at.programs
        /\ xdpAttached' = at.attached
        /\ call' = Return("attachProgram",
                          IF at.ok THEN "SUCCESS" ELSE "INITIALIZATION_FAILED")
    /\ UNCHANGED <<libVars, kind, ctl, fds, thread, cur, rxSeq, pulled, pushed, starts,
                   xdp, lastBind, notXdp>>

\* detachProgram(interface).
XDPLoader_detachProgram_call ==
    /\ kind = "AF_XDP" /\ ctl = "idle"
    /\ \E interface \in ExistingInterfaces, detachOk \in BOOLEAN :
        LET dt == XDPLoader_detachProgram(xdpAttached, interface, detachOk) IN
        /\ xdpAttached' = dt.attached
        /\ call' = Return("detachProgram",
                          IF dt.ok THEN "SUCCESS" ELSE "INTERNAL_ERROR")
    /\ UNCHANGED <<libVars, kind, ctl, fds, thread, cur, rxSeq, pulled, pushed, starts,
                   xdp, loader, lastBind, notXdp>>

\* unloadProgram(programName): success also when the name is not tracked.
XDPLoader_unloadProgram_call ==
    /\ kind = "AF_XDP" /\ ctl = "idle"
    /\ \E programName \in ProgramNames, detachOk \in BOOLEAN :
        LET ul == XDPLoader_unloadProgram(loader, xdpAttached, fds, programName,
                                          detachOk) IN
        /\ loader' = ul.programs
        /\ xdpAttached' = ul.attached
        /\ fds' = ul.fds
        /\ call' = Return("unloadProgram", "SUCCESS")
    /\ UNCHANGED <<libVars, kind, ctl, thread, cur, rxSeq, pulled, pushed, starts,
                   xdp, lastBind, notXdp>>

\* ~XDPLoader(): cleanup().
XDPLoader_dtor ==
    /\ kind = "AF_XDP" /\ ctl = "idle"
    /\ \E detachOk \in BOOLEAN :
        LET cl == XDPLoader_cleanup(loader, xdpAttached, fds, detachOk) IN
        /\ loader' = cl.programs
        /\ xdpAttached' = cl.attached
        /\ fds' = cl.fds
    /\ ctl' = "destroyed"
    /\ call' = Return("cleanup", "SUCCESS")
    /\ UNCHANGED <<libVars, kind, thread, cur, rxSeq, pulled, pushed, starts,
                   xdp, lastBind, notXdp>>

\* The loader driven through its own interface.
NextLoader ==
    \/ XDPLoader_loadProgram_call
    \/ XDPLoader_attachProgram_call
    \/ XDPLoader_detachProgram_call
    \/ XDPLoader_unloadProgram_call
    \/ XDPLoader_dtor

\* ======================================================== AF_XDPBackend
RingNames == {"fill", "completion", "rx", "tx"}
NoRings == [r \in RingNames |-> "null"]

AF_XDPBackend_ctor ==
    [running |-> FALSE, initialized |-> FALSE, interface |-> "",
     socket |-> NoFd, umem |-> "null", rings |-> NoRings,
     xdpProgramLoaded |-> FALSE, xdpProgramName |-> "",
     packetQueue |-> <<>>, packetCallback |-> FALSE]

NoBind == [done |-> FALSE, interface |-> "", programAttached |-> FALSE]

\* validateInterface: "/sys/class/net/" + interface exists.  The directory
\* itself exists, so the empty name passes.
AF_XDPBackend_validateInterface(interface) ==
    interface \in ExistingInterfaces \cup {""}

IsVeth(interface) == interface = "veth0"

\* initialize(config): stub-mode initialization; the socket is created and
\* bound later, by loadXdpProgram.
AF_XDPBackend_initialize ==
    /\ kind = "AF_XDP" /\ ctl = "idle"
    /\ \E interface \in Interfaces :
        IF xdp.initialized
        THEN /\ interface = "eth0"
             /\ call' = Return("initialize", "SUCCESS")
             /\ UNCHANGED xdp
        ELSE IF ~AF_XDPBackend_validateInterface(interface)
        THEN /\ xdp' = [xdp EXCEPT !.interface = interface]
             /\ call' = Return("initialize", "INVALID_ARGUMENT")
        ELSE /\ xdp' = [xdp EXCEPT !.interface = interface, !.initialized = TRUE]
             /\ call' = Return("initialize", "SUCCESS")
    /\ UNCHANGED <<libVars, kind, ctl, fds, thread, cur, rxSeq, pulled, pushed, starts,
                   loader, xdpAttached, lastBind, notXdp>>

\* A start() without the initialized_ check.
AF_XDPBackend_start_unchecked ==
    /\ kind = "AF_XDP" /\ ctl = "idle"
    /\ IF xdp.running
       THEN /\ call' = Return("start", "SUCCESS")
            /\ UNCHANGED <<xdp, thread, starts>>
       ELSE /\ starts < MaxStarts
            /\ xdp' = [xdp EXCEPT !.running = TRUE]
            /\ thread' = "loop"
            /\ starts' = starts + 1
            /\ call' = Return("start", "SUCCESS")
    /\ UNCHANGED <<libVars, kind, ctl, fds, cur, rxSeq, pulled, pushed,
                   loader, xdpAttached, lastBind, notXdp>>

\* start(): refuse when not initialized, no-op when running, else launch the
\* capture thread.
AF_XDPBackend_start ==
    /\ kind = "AF_XDP" /\ ctl = "idle"
    /\ IF ~xdp.initialized
       THEN /\ call' = Return("start", "INITIALIZATION_FAILED")
            /\ UNCHANGED <<xdp, thread, starts>>
       ELSE IF xdp.running
       THEN /\ call' = Return("start", "SUCCESS")
            /\ UNCHANGED <<xdp, thread, starts>>
       ELSE /\ starts < MaxStarts
            /\ xdp' = [xdp EXCEPT !.running = TRUE]
            /\ thread' = "loop"
            /\ starts' = starts + 1
            /\ call' = Return("start", "SUCCESS")
    /\ UNCHANGED <<libVars, kind, ctl, fds, cur, rxSeq, pulled, pushed,
                   loader, xdpAttached, lastBind, notXdp>>

\* stop(), up to the join.
AF_XDPBackend_stop ==
    /\ kind = "AF_XDP" /\ ctl = "idle"
    /\ IF ~xdp.running
       THEN /\ call' = Return("stop", "SUCCESS")
            /\ UNCHANGED <<xdp, ctl>>
       ELSE /\ xdp' = [xdp EXCEPT !.running = FALSE]
            /\ IF thread # "none"
               THEN ctl' = "stop_join" /\ UNCHANGED call
               ELSE ctl' = "idle" /\ call' = Return("stop", "SUCCESS")
    /\ UNCHANGED <<libVars, kind, fds, thread, cur, rxSeq, pulled, pushed, starts,
                   loader, xdpAttached, lastBind, notXdp>>

\* stop(), after the join returned.
AF_XDPBackend_stop_joined ==
    /\ kind = "AF_XDP" /\ ctl = "stop_join" /\ thread = "exited"
    /\ thread' = "none"
    /\ ctl' = "idle"
    /\ call' = Return("stop", "SUCCESS")
    /\ UNCHANGED <<libVars, kind, fds, cur, rxSeq, pulled, pushed, starts, xdpVars, notXdp>>

\* updateConfig(config): refused while running, else replaces config_.
AF_XDPBackend_updateConfig ==
    /\ kind = "AF_XDP" /\ ctl = "idle"
    /\ \E interface \in Interfaces :
        IF xdp.running
        THEN /\ interface = "eth0"
             /\ call' = Return("updateConfig", "INVALID_ARGUMENT")
             /\ UNCHANGED xdp
        ELSE /\ xdp' = [xdp EXCEPT !.interface = interface]
             /\ call' = Return("updateConfig", "SUCCESS")
    /\ UNCHANGED <<libVars, kind, ctl, fds, thread, cur, rxSeq, pulled, pushed, starts,
                   loader, xdpAttached, lastBind, notXdp>>

\* bindToInterface(): the checks before bind() and bind() itself.  `bound`
\* says whether bind() succeeded; on a veth interface a failed bind() still
\* returns true (generic-mode fallback).
AF_XDPBackend_bindToInterface(x, programs, fail) ==
    IF ~(x.interface \in ExistingInterfaces)
    THEN [ok |-> FALSE, bound |-> FALSE]
    ELSE IF ~XDPLoader_isProgramAttached(programs, x.interface)
    THEN [ok |-> FALSE, bound |-> FALSE]
    ELSE IF XDPLoader_getProgramInfo(programs, x.xdpProgramName) = 0
    THEN [ok |-> FALSE, bound |-> FALSE]
    ELSE IF fail = "bpffs"
    THEN [ok |-> FALSE, bound |-> FALSE]
    ELSE IF fail = "noxdp" /\ ~IsVeth(x.interface)
    THEN [ok |-> FALSE, bound |-> FALSE]
    ELSE IF fail = "bind"
    THEN [ok |-> IsVeth(x.interface), bound |-> FALSE]
    ELSE [ok |-> TRUE, bound |-> TRUE]

\* initializeRingBuffers(): query the four ring sizes, then map the rings
\* in the order fill, completion, rx, tx; the first mmap that fails leaves
\* MAP_FAILED in its pointer and the later pointers as they were.
RingOrder == <<"fill", "completion", "rx", "tx">>
RingIndex(r) == CHOOSE i \in 1..4 : RingOrder[i] = r

AF_XDPBackend_initializeRingBuffers_map(x, fail) ==
    IF fail = "ringopt" THEN x
    ELSE IF fail \in {"map_fill", "map_completion", "map_rx", "map_tx"}
    THEN LET bad == CHOOSE r \in RingNames : fail = "map_" \o r IN
         [x EXCEPT !.rings = [r \in RingNames |->
              IF RingIndex(r) < RingIndex(bad) THEN "mapped"
              ELSE IF r = bad THEN "MAP_FAILED" ELSE x.rings[r]]]
    ELSE [x EXCEPT !.rings = [r \in RingNames |-> "mapped"]]

\* initializeRealMode(): createSocket, initializeUmem, bindToInterface,
\* initializeRingBuffers; each step returns at its first failure and
\* releases nothing.
AF_XDPBackend_initializeRealMode(x, programs, open, fail) ==
    IF fail = "socket" \/ Cardinality(open) = MaxFds
    THEN [x |-> [x EXCEPT !.socket = NoFd], fds |-> open, bound |-> FALSE]
    ELSE LET fd == LowestFreeFd(open)
             x1 == [x EXCEPT !.socket = fd]
             open1 == open \cup {fd}
         IN  IF fail = "umem_mmap"
             THEN [x |-> [x1 EXCEPT !.umem = "MAP_FAILED"], fds |-> open1, bound |-> FALSE]
             ELSE IF fail = "umem_reg"
             THEN [x |-> [x1 EXCEPT !.umem = "null"], fds |-> open1, bound |-> FALSE]
             ELSE LET x2 == [x1 EXCEPT !.umem = "mapped"]
                      b == AF_XDPBackend_bindToInterface(x2, programs, fail)
                  IN  IF ~b.ok
                      THEN [x |-> x2, fds |-> open1, bound |-> FALSE]
                      ELSE [x |-> AF_XDPBackend_initializeRingBuffers_map(x2, fail),
                            fds |-> open1, bound |-> b.bound]

XdpFailures ==
    {"none", "load", "map", "pindir", "pinmap", "attach", "socket", "umem_mmap",
     "umem_reg", "bpffs", "noxdp", "bind", "ringopt", "map_fill", "map_rx"}

\* loadXdpProgram(path, name, mode): load, attach, set the program flags,
\* then try to enter real mode (whose failure is only logged).
AF_XDPBackend_loadXdpProgram ==
    /\ kind = "AF_XDP" /\ ctl = "idle"
    /\ \E programName \in ProgramNames, xdpMode \in XdpModes, fail \in XdpFailures :
        LET ld == XDPLoader_loadProgram(loader, fds, xdp.interface, programName, fail)
            at == XDPLoader_attachProgram(ld.programs, xdpAttached, xdp.interface,
                                          xdpMode, fail)
            x1 == [xdp EXCEPT !.xdpProgramName = programName,
                              !.xdpProgramLoaded = TRUE]
            rm == AF_XDPBackend_initializeRealMode(x1, at.programs, ld.fds, fail)
        IN  IF ~ld.ok
            THEN /\ call' = Return("loadXdpProgram", "INITIALIZATION_FAILED")
                 /\ UNCHANGED <<xdp, loader, fds, xdpAttached, lastBind>>
            ELSE IF ~at.ok
            THEN /\ loader' = ld.programs
                 /\ fds' = ld.fds
                 /\ call' = Return("loadXdpProgram", "INITIALIZATION_FAILED")
                 /\ UNCHANGED <<xdp, xdpAttached, lastBind>>
            ELSE /\ loader' = at.programs
                 /\ xdpAttached' = at.attached
                 /\ xdp' = rm.x
                 /\ fds' = rm.fds
                 /\ lastBind' = IF rm.bound
                                THEN [done |-> TRUE, interface |-> xdp.interface,
                                      programAttached |-> xdp.interface \in at.attached]
                                ELSE lastBind
                 /\ call' = Return("loadXdpProgram", "SUCCESS")
    /\ UNCHANGED <<libVars, kind, ctl, thread, cur, rxSeq, pulled, pushed, starts, notXdp>>

\* unloadXdpProgram(): detach from config_.interface (a failure is only
\* logged), unload the program by name, clear the program flags.
AF_XDPBackend_unloadXdpProgram ==
    /\ kind = "AF_XDP" /\ ctl = "idle"
    /\ \E detachOk \in BOOLEAN :
        IF ~xdp.xdpProgramLoaded
        THEN /\ detachOk
             /\ call' = Return("unloadXdpProgram", "SUCCESS")
             /\ UNCHANGED <<xdp, loader, fds, xdpAttached>>
        ELSE LET dt == XDPLoader_detachProgram(xdpAttached, xdp.interface, detachOk)
                 ul == XDPLoader_unloadProgram(loader, dt.attached, fds,
                                               xdp.xdpProgramName, detachOk)
             IN  /\ loader' = ul.programs
                 /\ xdpAttached' = ul.attached
                 /\ fds' = ul.fds
                 /\ xdp' = [xdp EXCEPT !.xdpProgramLoaded = FALSE, !.xdpProgramName = ""]
                 /\ call' = Return("unloadXdpProgram", "SUCCESS")
    /\ UNCHANGED <<libVars, kind, ctl, thread, cur, rxSeq, pulled, pushed, starts, lastBind, notXdp>>

\* packetProcessingLoop, the loop test: while (running_).
AF_XDPBackend_loop_test ==
    /\ kind = "AF_XDP" /\ thread = "loop"
    /\ thread' = IF xdp.running THEN "body" ELSE "exited"
    /\ UNCHANGED <<libVars, kind, ctl, call, fds, cur, rxSeq, pulled, pushed, starts, xdpVars, notXdp>>

\* packetProcessingLoop, one iteration: ring processing when the socket and
\* the RX ring are set, else generateTestPackets(), which, when 100 ms have
\* passed since the last one, creates a test packet, queues it and hands
\* it to the callback.
AF_XDPBackend_loop_body ==
    /\ kind = "AF_XDP" /\ thread = "body"
    /\ IF xdp.socket >= 0 /\ xdp.rings["rx"] # "null"
       THEN thread' = "loop" /\ UNCHANGED <<xdp, rxSeq, cur>>
       ELSE \E due \in BOOLEAN :
            IF due /\ Len(rxSeq) < MaxPackets
            THEN LET testPacket == Len(rxSeq) + 1 IN
                 /\ rxSeq' = Append(rxSeq, testPacket)
                 /\ xdp' = [xdp EXCEPT !.packetQueue = Append(@, testPacket)]
                 /\ cur' = testPacket
                 /\ thread' = "callback"
            ELSE ~due /\ thread' = "loop" /\ UNCHANGED <<xdp, rxSeq, cur>>
    /\ UNCHANGED <<libVars, kind, ctl, call, fds, pulled, pushed, starts,
                   loader, xdpAttached, lastBind,
                   pkt, dpdkVars, xsk, dmaVars, appVars, statVars>>

\* generateTestPackets(), if (packetCallback_): the capture thread reads the
\* slot without callbackMutex_.  processRxQueue() has the same statements.
AF_XDPBackend_callback_test ==
    /\ kind = "AF_XDP" /\ thread = "callback"
    /\ \E set \in BOOLEAN :
        /\ ctl # "callback_write" => set = xdp.packetCallback
        /\ IF set
           THEN thread' = "invoke" /\ UNCHANGED <<cur, loaded>>
           ELSE thread' = "count" /\ cur' = 0 /\ loaded' = stats.packetsCaptured
    /\ UNCHANGED <<libVars, kind, ctl, call, fds, rxSeq, pulled, pushed, starts,
                   xdpVars, pkt, dpdkVars, xsk, dmaVars, appVars, stats, seen>>

\* generateTestPackets(), packetCallback_(testPacket) inside try/catch, again
\* without callbackMutex_: an empty slot throws bad_function_call, which is
\* caught; a slot that removePacketCallback() is writing at that moment
\* yields the old target or the exception.
AF_XDPBackend_callback_invoke ==
    /\ kind = "AF_XDP" /\ thread = "invoke"
    /\ \E target \in BOOLEAN :
        /\ ctl # "callback_write" => target = xdp.packetCallback
        /\ pushed' = IF target THEN Append(pushed, cur) ELSE pushed
    /\ cur' = 0
    /\ loaded' = stats.packetsCaptured
    /\ thread' = "count"
    /\ UNCHANGED <<libVars, kind, ctl, call, fds, rxSeq, pulled, starts,
                   xdpVars, pkt, dpdkVars, xsk, dmaVars, appVars, stats, seen>>

\* generateTestPackets(), stats_.packetsCaptured++ without statsMutex_: the
\* value read before is written back incremented, and bytesCaptured is read.
\* processRxQueue() ends with the same two statements.
AF_XDPBackend_count_packets ==
    /\ kind = "AF_XDP" /\ thread = "count"
    /\ stats' = [stats EXCEPT !.packetsCaptured = loaded + 1]
    /\ loaded' = stats.bytesCaptured
    /\ thread' = "count_bytes"
    /\ UNCHANGED <<libVars, kind, ctl, call, fds, cur, rxSeq, pulled, pushed, starts,
                   xdpVars, pkt, dpdkVars, xsk, dmaVars, appVars, seen>>

\* generateTestPackets(), stats_.bytesCaptured += testPacket.length()
\* without statsMutex_: the write.
AF_XDPBackend_count_bytes ==
    /\ kind = "AF_XDP" /\ thread = "count_bytes"
    /\ stats' = [stats EXCEPT !.bytesCaptured = loaded + FrameLength(Len(rxSeq))]
    /\ loaded' = 0
    /\ thread' = "loop"
    /\ UNCHANGED <<libVars, kind, ctl, call, fds, cur, rxSeq, pulled, pushed, starts,
                   xdpVars, pkt, dpdkVars, xsk, dmaVars, appVars, seen>>

\* What shutdown() does after its stop(): unload the program, close the
\* socket, drop the ring and UMEM pointers, clear initialized_; nothing at
\* all when the backend is not initialized.  The DMA buffers are not freed.  Then xdpLoader_ is destroyed,
\* which runs XDPLoader::cleanup().
AF_XDPBackend_shutdown_release ==
    \E detachOk \in BOOLEAN :
        LET dt == XDPLoader_detachProgram(xdpAttached, xdp.interface, detachOk)
            ul == IF xdp.initialized /\ xdp.xdpProgramLoaded
                  THEN XDPLoader_unloadProgram(loader, dt.attached, fds,
                                               xdp.xdpProgramName, detachOk)
                  ELSE [programs |-> loader, attached |-> xdpAttached, fds |-> fds]
            open1 == IF xdp.initialized /\ xdp.socket >= 0
                     THEN ul.fds \ {xdp.socket} ELSE ul.fds
            cl == XDPLoader_cleanup(ul.programs, ul.attached, open1, detachOk)
        IN  /\ xdp' = IF xdp.initialized
                      THEN [xdp EXCEPT !.running = FALSE, !.xdpProgramLoaded = FALSE,
                                       !.xdpProgramName = "", !.socket = NoFd,
                                       !.rings = NoRings, !.umem = "null",
                                       !.initialized = FALSE]
                      ELSE xdp
            /\ loader' = cl.programs
            /\ xdpAttached' = cl.attached
            /\ fds' = cl.fds
            /\ ctl' = "destroyed"
            /\ call' = Return("dtor", "SUCCESS")

\* ~AF_XDPBackend() -> shutdown()
AF_XDPBackend_dtor ==
    /\ kind = "AF_XDP" /\ ctl = "idle"
    /\ IF xdp.initialized /\ xdp.running /\ thread # "none"
       THEN /\ xdp' = [xdp EXCEPT !.running = FALSE]
            /\ ctl' = "dtor_join"
            /\ UNCHANGED <<call, fds, loader, xdpAttached>>
       ELSE AF_XDPBackend_shutdown_release
    /\ UNCHANGED <<libVars, kind, thread, cur, rxSeq, pulled, pushed, starts, lastBind, notXdp>>

AF_XDPBackend_dtor_joined ==
    /\ kind = "AF_XDP" /\ ctl = "dtor_join" /\ thread = "exited"
    /\ thread' = "none"
    /\ AF_XDPBackend_shutdown_release
    /\ UNCHANGED <<libVars, kind, cur, rxSeq, pulled, pushed, starts, lastBind, notXdp>>

\* nextPacket(timeout): stub, always none.
AF_XDPBackend_nextPacket ==
    /\ kind = "AF_XDP" /\ ctl # "destroyed"
    /\ call' = Return("nextPacket", "none")
    /\ UNCHANGED <<libVars, kind, ctl, fds, thread, cur, rxSeq, pulled, pushed, starts,
                   xdpVars, notXdp>>

AF_XDPBackend_setPacketCallback ==
    /\ kind = "AF_XDP" /\ ctl = "idle"
    /\ \E installed \in BOOLEAN : xdp' = [xdp EXCEPT !.packetCallback = installed]
    /\ UNCHANGED <<libVars, kind, ctl, call, fds, thread, cur, rxSeq, pulled, pushed, starts,
                   loader, xdpAttached, lastBind, notXdp>>

\* removePacketCallback(): callbackMutex_ is taken and the assignment of
\* nullptr to packetCallback_ has begun.
AF_XDPBackend_removePacketCallback ==
    /\ kind = "AF_XDP" /\ ctl = "idle"
    /\ ctl' = "callback_write"
    /\ UNCHANGED <<libVars, kind, call, fds, thread, cur, rxSeq, pulled, pushed, starts,
                   xdpVars, notXdp>>

\* removePacketCallback(): the assignment is complete, the mutex is released
\* and the call returns.
AF_XDPBackend_removePacketCallback_done ==
    /\ kind = "AF_XDP" /\ ctl = "callback_write"
    /\ xdp' = [xdp EXCEPT !.packetCallback = FALSE]
    /\ ctl' = "idle"
    /\ call' = Return("removePacketCallback", "void")
    /\ UNCHANGED <<libVars, kind, fds, thread, cur, rxSeq, pulled, pushed, starts,
                   loader, xdpAttached, lastBind, notXdp>>

\* isHealthy()
AF_XDPBackend_isHealthy == xdp.initialized /\ xdp.running

\* The lifecycle operations of the AF_XDP backend and its capture thread.
NextAF_XDP ==
    \/ AF_XDPBackend_initialize
    \/ AF_XDPBackend_start
    \/ AF_XDPBackend_stop
    \/ AF_XDPBackend_stop_joined
    \/ AF_XDPBackend_updateConfig
    \/ AF_XDPBackend_loop_test
    \/ AF_XDPBackend_loop_body
    \/ AF_XDPBackend_callback_test
    \/ AF_XDPBackend_callback_invoke
    \/ AF_XDPBackend_count_packets
    \/ AF_XDPBackend_count_bytes
    \/ AF_XDPBackend_dtor
    \/ AF_XDPBackend_dtor_joined
    \/ AF_XDPBackend_nextPacket
    \/ AF_XDPBackend_setPacketCallback

\* The program operations of the AF_XDP backend, on a backend that is not
\* capturing.
NextXdpProgram ==
    \/ AF_XDPBackend_initialize
    \/ AF_XDPBackend_updateConfig
    \/ AF_XDPBackend_loadXdpProgram
    \/ AF_XDPBackend_unloadXdpProgram
    \/ AF_XDPBackend_dtor

\* ===================================================== DPDK framework
\* The EAL and port 0 as the backends see them.  up: rte_eal_init has
\* succeeded and rte_eal_cleanup has not run since.  port: "absent" without
\* an EAL, "probed" after rte_eal_init, "configured" after
\* rte_eth_dev_configure, "started" after rte_eth_dev_start, "closed" after
\* rte_eth_dev_stop and rte_eth_dev_close.
EalDown == [up |-> FALSE, port |-> "absent", inits |-> 0]

\* rte_eal_init as initializeDPDK() calls it when dpdkInitialized_ is clear:
\* one more invocation in this process; ret < 0 leaves the EAL as it was,
\* otherwise the EAL is up and its ports are probed.
rte_eal_init(e, fails) ==
    IF fails THEN [e EXCEPT !.inits = @ + 1]
    ELSE [up |-> TRUE, port |-> "probed", inits |-> e.inits + 1]

\* rte_eal_cleanup as shutdown() calls it: the EAL and its ports are gone,
\* the invocations of rte_eal_init so far are not undone.
rte_eal_cleanup(e) == [e EXCEPT !.up = FALSE, !.port = "absent"]

\* rte_eth_dev_start(0): a closed port is released and cannot be started
\* again; a configured port starts unless the driver reports a failure.
rte_eth_dev_start(e, fail) ==
    IF e.port \in {"configured", "started"} /\ fail # "dev_start"
    THEN [ok |-> TRUE, eal |-> [e EXCEPT !.port = "started"]]
    ELSE [ok |-> FALSE, eal |-> e]

\* rte_eth_dev_stop(0) followed by rte_eth_dev_close(0).
rte_eth_dev_close(e) ==
    IF e.port \in {"configured", "started"} THEN [e EXCEPT !.port = "closed"] ELSE e

DpdkInterfaces == {"", "eth0"}
DpdkFailures == {"none", "eal", "noport", "configure", "mempool", "rxq"}

\* ========================================================== DPDKBackend
DPDKBackend_ctor ==
    [running |-> FALSE, initialized |-> FALSE, dpdkInitialized |-> FALSE,
     interface |-> "", lastError |-> "", dpdkArgs |-> <<>>]

DPDKBackend_validateInterface(interface) == interface # ""

\* initialize(config): validateInterface, initializeDPDK, initializePort,
\* setupQueues.  `fail` is the framework call that fails, if any.
DPDKBackend_initialize ==
    /\ kind = "DPDK" /\ ctl = "idle"
    /\ \E interface \in DpdkInterfaces, fail \in DpdkFailures :
        LET b0 == [dpdk EXCEPT !.interface = interface]
            ealFails == ~dpdk.dpdkInitialized /\ fail = "eal"
            ealRetry == eal.inits < MaxEalInits
            b1 == [b0 EXCEPT !.dpdkInitialized = TRUE]
            e1 == IF dpdk.dpdkInitialized THEN eal ELSE rte_eal_init(eal, FALSE)
        IN  IF dpdk.initialized
            THEN /\ fail = "none" /\ interface = "eth0"
                 /\ call' = Return("initialize", "SUCCESS")
                 /\ UNCHANGED <<dpdk, eal>>
            ELSE IF ~DPDKBackend_validateInterface(interface)
            THEN /\ fail = "none"
                 /\ dpdk' = b0
                 /\ call' = Return("initialize", "INVALID_ARGUMENT")
                 /\ UNCHANGED eal
            ELSE IF ealFails
            THEN /\ ealRetry
                 /\ dpdk' = [b0 EXCEPT !.lastError = "eal"]
                 /\ eal' = rte_eal_init(eal, TRUE)
                 /\ call' = Return("initialize", "INITIALIZATION_FAILED")
            ELSE IF fail \in {"noport", "configure"}
            THEN /\ dpdk' = [b1 EXCEPT !.lastError = fail]
                 /\ eal' = e1
                 /\ call' = Return("initialize", "INITIALIZATION_FAILED")
            ELSE IF fail \in {"mempool", "rxq"}
            THEN /\ dpdk' = [b1 EXCEPT !.lastError = fail]
                 /\ eal' = [e1 EXCEPT !.port = "configured"]
                 /\ call' = Return("initialize", "INITIALIZATION_FAILED")
            ELSE /\ dpdk' = [b1 EXCEPT !.initialized = TRUE]
                 /\ eal' = [e1 EXCEPT !.port = "configured"]
                 /\ call' = Return("initialize", "SUCCESS")
    /\ UNCHANGED <<libVars, kind, ctl, fds, thread, cur, rxSeq, pulled, pushed, starts,
                   pmd, notDpdk>>

\* start(): refuse when not initialized, no-op when running, else startPort()
\* and launch the capture thread.
DPDKBackend_start ==
    /\ kind = "DPDK" /\ ctl = "idle"
    /\ \E fail \in {"none", "dev_start"} :
        LET sp == rte_eth_dev_start(eal, fail) IN
        IF ~dpdk.initialized
        THEN /\ fail = "none"
             /\ call' = Return("start", "INITIALIZATION_FAILED")
             /\ UNCHANGED <<dpdk, eal, thread, starts>>
        ELSE IF dpdk.running
        THEN /\ fail = "none"
             /\ call' = Return("start", "SUCCESS")
             /\ UNCHANGED <<dpdk, eal, thread, starts>>
        ELSE IF ~sp.ok
        THEN /\ dpdk' = [dpdk EXCEPT !.lastError = "start"]
             /\ call' = Return("start", "INITIALIZATION_FAILED")
             /\ UNCHANGED <<eal, thread, starts>>
        ELSE /\ starts < MaxStarts
             /\ dpdk' = [dpdk EXCEPT !.running = TRUE]
             /\ eal' = sp.eal
             /\ thread' = "loop"
             /\ starts' = starts + 1
             /\ call' = Return("start", "SUCCESS")
    /\ UNCHANGED <<libVars, kind, ctl, fds, cur, rxSeq, pulled, pushed, pmd, notDpdk>>

\* stop(), up to the join: clear running_, notify_all() on packetCondition_.
DPDKBackend_stop ==
    /\ kind = "DPDK" /\ ctl = "idle"
    /\ IF ~dpdk.running
       THEN /\ call' = Return("stop", "SUCCESS")
            /\ UNCHANGED <<dpdk, ctl, worker>>
       ELSE /\ dpdk' = [dpdk EXCEPT !.running = FALSE]
            /\ worker' = notify_all(worker, TRUE)
            /\ ctl' = "stop_join"
            /\ UNCHANGED call
    /\ UNCHANGED <<libVars, kind, fds, thread, cur, rxSeq, pulled, pushed, starts,
                   pmd, eal, pkt, xdpVars, xsk, dmaVars, clock, statVars>>

\* stop(), after the join returned: stopPort().
DPDKBackend_stop_joined ==
    /\ kind = "DPDK" /\ ctl = "stop_join" /\ thread = "exited"
    /\ thread' = "none"
    /\ eal' = rte_eth_dev_close(eal)
    /\ ctl' = "idle"
    /\ call' = Return("stop", "SUCCESS")
    /\ UNCHANGED <<libVars, kind, fds, cur, rxSeq, pulled, pushed, starts, dpdk, pmd, notDpdk>>

\* packetProcessingLoop, the loop test: while (running_).
DPDKBackend_loop_test ==
    /\ kind = "DPDK" /\ thread = "loop"
    /\ thread' = IF dpdk.running THEN "burst" ELSE "exited"
    /\ UNCHANGED <<libVars, kind, ctl, call, fds, cur, rxSeq, pulled, pushed, starts,
                   dpdkVars, notDpdk>>

\* processPackets(): rte_eth_rx_burst, count the frames, free them.  Nothing
\* is queued and no callback is invoked.
DPDKBackend_processPackets ==
    /\ kind = "DPDK" /\ thread = "burst"
    /\ \E nbRx \in 0..1 :
        IF dpdk.running /\ nbRx = 1 /\ Len(rxSeq) < MaxPackets
        THEN /\ rxSeq' = Append(rxSeq, Len(rxSeq) + 1)
             /\ stats' = CountFrame(stats, FrameLength(Len(rxSeq) + 1))
        ELSE nbRx = 0 /\ UNCHANGED <<rxSeq, stats>>
    /\ thread' = "loop"
    /\ UNCHANGED <<libVars, kind, ctl, call, fds, cur, pulled, pushed, starts,
                   dpdkVars, pkt, xdpVars, xsk, dmaVars, appVars, seen, loaded>>

\* What shutdown() does after its stop(): rte_eal_cleanup when the EAL was
\* initialized, clear dpdkInitialized_, free the DMA buffers when
\* dmaBuffers_ is set, clear initialized_.
DPDKBackend_shutdown_release(e) ==
    /\ eal' = IF dpdk.dpdkInitialized THEN rte_eal_cleanup(e) ELSE e
    /\ LET r == DPDKBackend_freeDMABuffers(dma, mem)
       IN  dma' = r.dma /\ mem' = r.mem
    /\ dpdk' = [dpdk EXCEPT !.running = FALSE, !.dpdkInitialized = FALSE,
                            !.initialized = FALSE]
    /\ ctl' = "destroyed"
    /\ call' = Return("dtor", "SUCCESS")

\* ~DPDKBackend() -> shutdown()
DPDKBackend_dtor ==
    /\ kind = "DPDK" /\ ctl = "idle"
    /\ IF dpdk.running
       THEN /\ dpdk' = [dpdk EXCEPT !.running = FALSE]
            /\ ctl' = "dtor_join"
            /\ UNCHANGED <<call, eal, dma, mem>>
       ELSE DPDKBackend_shutdown_release(eal)
    /\ UNCHANGED <<libVars, kind, fds, thread, cur, rxSeq, pulled, pushed, starts, pmd,
                   pkt, xdpVars, xsk, zc, appVars, statVars>>

DPDKBackend_dtor_joined ==
    /\ kind = "DPDK" /\ ctl = "dtor_join" /\ thread = "exited"
    /\ thread' = "none"
    /\ DPDKBackend_shutdown_release(rte_eth_dev_close(eal))
    /\ UNCHANGED <<libVars, kind, fds, cur, rxSeq, pulled, pushed, starts, pmd,
                   pkt, xdpVars, xsk, zc, appVars, statVars>>

\* setDPDKArgs(args): refused once the EAL is initialized.
DPDKBackend_setDPDKArgs ==
    /\ kind = "DPDK" /\ ctl = "idle"
    /\ \E args \in {<<>>, <<"-l0">>} :
        IF dpdk.dpdkInitialized
        THEN /\ args = <<>>
             /\ call' = Return("setDPDKArgs", "INVALID_ARGUMENT")
             /\ UNCHANGED dpdk
        ELSE /\ dpdk' = [dpdk EXCEPT !.dpdkArgs = args]
             /\ call' = Return("setDPDKArgs", "SUCCESS")
    /\ UNCHANGED <<libVars, kind, ctl, fds, thread, cur, rxSeq, pulled, pushed, starts,
                   pmd, eal, notDpdk>>

\* isHealthy()
DPDKBackend_isHealthy ==
    dpdk.initialized /\ dpdk.dpdkInitialized /\ dpdk.lastError # ""

NextDPDK ==
    \/ DPDKBackend_initialize
    \/ DPDKBackend_start
    \/ DPDKBackend_stop
    \/ DPDKBackend_stop_joined
    \/ DPDKBackend_loop_test
    \/ DPDKBackend_processPackets
    \/ DPDKBackend_dtor
    \/ DPDKBackend_dtor_joined
    \/ DPDKBackend_setDPDKArgs

\* ========================================================== PMDBackend
PMDBackend_ctor ==
    [running |-> FALSE, initialized |-> FALSE, dpdkInitialized |-> FALSE,
     portInitialized |-> FALSE, interface |-> "", lastError |-> "",
     virtualDevices |-> <<>>]

PMDBackend_validateInterface(interface) == interface # ""

\* initialize(config): validateInterface, initializeDPDK, initializePMD,
\* initializePort, setupQueues.  `fail` is the framework call that fails, if any.
PMDBackend_initialize ==
    /\ kind = "PMD" /\ ctl = "idle"
    /\ \E interface \in DpdkInterfaces, fail \in DpdkFailures :
        LET b0 == [pmd EXCEPT !.interface = interface]
            ealFails == ~pmd.dpdkInitialized /\ fail = "eal"
            ealRetry == eal.inits < MaxEalInits
            b1 == [b0 EXCEPT !.dpdkInitialized = TRUE]
            e1 == IF pmd.dpdkInitialized THEN eal ELSE rte_eal_init(eal, FALSE)
        IN  IF pmd.initialized
            THEN /\ fail = "none" /\ interface = "eth0"
                 /\ call' = Return("initialize", "SUCCESS")
                 /\ UNCHANGED <<pmd, eal>>
            ELSE IF ~PMDBackend_validateInterface(interface)
            THEN /\ fail = "none"
                 /\ pmd' = b0
                 /\ call' = Return("initialize", "INVALID_ARGUMENT")
                 /\ UNCHANGED eal
            ELSE IF ealFails
            THEN /\ ealRetry
                 /\ pmd' = [b0 EXCEPT !.lastError = "eal"]
                 /\ eal' = rte_eal_init(eal, TRUE)
                 /\ call' = Return("initialize", "INITIALIZATION_FAILED")
            ELSE IF fail \in {"noport", "configure"}
            THEN /\ pmd' = [b1 EXCEPT !.lastError = fail]
                 /\ eal' = e1
                 /\ call' = Return("initialize", "INITIALIZATION_FAILED")
            ELSE IF fail \in {"mempool", "rxq"}
            THEN /\ pmd' = [b1 EXCEPT !.lastError = fail, !.portInitialized = TRUE]
                 /\ eal' = [e1 EXCEPT !.port = "configured"]
                 /\ call' = Return("initialize", "INITIALIZATION_FAILED")
            ELSE /\ pmd' = [b1 EXCEPT !.initialized = TRUE, !.portInitialized = TRUE]
                 /\ eal' = [e1 EXCEPT !.port = "configured"]
                 /\ call' = Return("initialize", "SUCCESS")
    /\ UNCHANGED <<libVars, kind, ctl, fds, thread, cur, rxSeq, pulled, pushed, starts,
                   dpdk, notDpdk>>

\* start(): refuse when not initialized, no-op when running, else startPort()
\* (which fails without touching the port when portInitialized_ is false)
\* and launch the capture thread.
PMDBackend_start ==
    /\ kind = "PMD" /\ ctl = "idle"
    /\ \E fail \in {"none", "dev_start"} :
        LET sp == rte_eth_dev_start(eal, fail) IN
        IF ~pmd.initialized
        THEN /\ fail = "none"
             /\ call' = Return("start", "INITIALIZATION_FAILED")
             /\ UNCHANGED <<pmd, eal, thread, starts>>
        ELSE IF pmd.running
        THEN /\ fail = "none"
             /\ call' = Return("start", "SUCCESS")
             /\ UNCHANGED <<pmd, eal, thread, starts>>
        ELSE IF ~pmd.portInitialized
        THEN /\ fail = "none"
             /\ call' = Return("start", "INITIALIZATION_FAILED")
             /\ UNCHANGED <<pmd, eal, thread, starts>>
        ELSE IF ~sp.ok
        THEN /\ pmd' = [pmd EXCEPT !.lastError = "start"]
             /\ call' = Return("start", "INITIALIZATION_FAILED")
             /\ UNCHANGED <<eal, thread, starts>>
        ELSE /\ starts < MaxStarts
             /\ pmd' = [pmd EXCEPT !.running = TRUE]
             /\ eal' = sp.eal
             /\ thread' = "loop"
             /\ starts' = starts + 1
             /\ call' = Return("start", "SUCCESS")
    /\ UNCHANGED <<libVars, kind, ctl, fds, cur, rxSeq, pulled, pushed, dpdk, notDpdk>>

\* stopPort(): stop and close the port when portInitialized_ is set (and
\* clear the flag, which the callers do).
PMDBackend_stopPort(b, e) == IF b.portInitialized THEN rte_eth_dev_close(e) ELSE e

\* stop(), up to the join: clear running_, notify_all() on packetCondition_.
PMDBackend_stop ==
    /\ kind = "PMD" /\ ctl = "idle"
    /\ IF ~pmd.running
       THEN /\ call' = Return("stop", "SUCCESS")
            /\ UNCHANGED <<pmd, ctl, worker>>
       ELSE /\ pmd' = [pmd EXCEPT !.running = FALSE]
            /\ worker' = notify_all(worker, TRUE)
            /\ ctl' = "stop_join"
            /\ UNCHANGED call
    /\ UNCHANGED <<libVars, kind, fds, thread, cur, rxSeq, pulled, pushed, starts,
                   dpdk, eal, pkt, xdpVars, xsk, dmaVars, clock, statVars>>

\* stop(), after the join returned: stopPort().
PMDBackend_stop_joined ==
    /\ kind = "PMD" /\ ctl = "stop_join" /\ thread = "exited"
    /\ thread' = "none"
    /\ eal' = PMDBackend_stopPort(pmd, eal)
    /\ pmd' = [pmd EXCEPT !.portInitialized = FALSE]
    /\ ctl' = "idle"
    /\ call' = Return("stop", "SUCCESS")
    /\ UNCHANGED <<libVars, kind, fds, cur, rxSeq, pulled, pushed, starts, dpdk, notDpdk>>

\* packetProcessingLoop, the loop test: while (running_).
PMDBackend_loop_test ==
    /\ kind = "PMD" /\ thread = "loop"
    /\ thread' = IF pmd.running THEN "burst" ELSE "exited"
    /\ UNCHANGED <<libVars, kind, ctl, call, fds, cur, rxSeq, pulled, pushed, starts,
                   dpdkVars, notDpdk>>

\* processPackets(): rte_eth_rx_burst, count the frames, free them.  Nothing
\* is queued and no callback is invoked.
PMDBackend_processPackets ==
    /\ kind = "PMD" /\ thread = "burst"
    /\ \E nbRx \in 0..1 :
        IF pmd.running /\ pmd.portInitialized /\ nbRx = 1 /\ Len(rxSeq) < MaxPackets
        THEN /\ rxSeq' = Append(rxSeq, Len(rxSeq) + 1)
             /\ stats' = CountFrame(stats, FrameLength(Len(rxSeq) + 1))
        ELSE nbRx = 0 /\ UNCHANGED <<rxSeq, stats>>
    /\ thread' = "loop"
    /\ UNCHANGED <<libVars, kind, ctl, call, fds, cur, pulled, pushed, starts,
                   dpdkVars, pkt, xdpVars, xsk, dmaVars, appVars, seen, loaded>>

\* What shutdown() does after its stop(): rte_eal_cleanup when the EAL was
\* initialized, clear dpdkInitialized_, free the DMA buffers when
\* dmaBuffers_ is set, clear initialized_.
PMDBackend_shutdown_release(e, portInit) ==
    /\ eal' = IF pmd.dpdkInitialized THEN rte_eal_cleanup(e) ELSE e
    /\ LET r == DPDKBackend_freeDMABuffers(dma, mem)
       IN  dma' = r.dma /\ mem' = r.mem
    /\ pmd' = [pmd EXCEPT !.running = FALSE, !.dpdkInitialized = FALSE,
                          !.initialized = FALSE, !.portInitialized = portInit]
    /\ ctl' = "destroyed"
    /\ call' = Return("dtor", "SUCCESS")

\* ~PMDBackend() -> shutdown()
PMDBackend_dtor ==
    /\ kind = "PMD" /\ ctl = "idle"
    /\ IF pmd.running
       THEN /\ pmd' = [pmd EXCEPT !.running = FALSE]
            /\ ctl' = "dtor_join"
            /\ UNCHANGED <<call, eal, dma, mem>>
       ELSE PMDBackend_shutdown_release(eal, pmd.portInitialized)
    /\ UNCHANGED <<libVars, kind, fds, thread, cur, rxSeq, pulled, pushed, starts, dpdk,
                   pkt, xdpVars, xsk, zc, appVars, statVars>>

PMDBackend_dtor_joined ==
    /\ kind = "PMD" /\ ctl = "dtor_join" /\ thread = "exited"
    /\ thread' = "none"
    /\ PMDBackend_shutdown_release(PMDBackend_stopPort(pmd, eal), FALSE)
    /\ UNCHANGED <<libVars, kind, fds, cur, rxSeq, pulled, pushed, starts, dpdk,
                   pkt, xdpVars, xsk, zc, appVars, statVars>>

\* addVirtualDevice(deviceType, params): refused once the EAL is
\* initialized; createVirtualDevice() always succeeds.
PMDBackend_addVirtualDevice ==
    /\ kind = "PMD" /\ ctl = "idle"
    /\ IF pmd.dpdkInitialized
       THEN /\ call' = Return("addVirtualDevice", "INVALID_ARGUMENT")
            /\ UNCHANGED pmd
       ELSE /\ Len(pmd.virtualDevices) < MaxVdevs
            /\ pmd' = [pmd EXCEPT !.virtualDevices = Append(@, "net_tap")]
            /\ call' = Return("addVirtualDevice", "SUCCESS")
    /\ UNCHANGED <<libVars, kind, ctl, fds, thread, cur, rxSeq, pulled, pushed, starts,
                   dpdk, eal, notDpdk>>

\* isHealthy()
PMDBackend_isHealthy ==
    pmd.initialized /\ pmd.dpdkInitialized /\ pmd.portInitialized

NextPMD ==
    \/ PMDBackend_initialize
    \/ PMDBackend_start
    \/ PMDBackend_stop
    \/ PMDBackend_stop_joined
    \/ PMDBackend_loop_test
    \/ PMDBackend_processPackets
    \/ PMDBackend_dtor
    \/ PMDBackend_dtor_joined
    \/ PMDBackend_addVirtualDevice

\* ================================================== AF_XDP ring protocol
\* struct xdp_ring { uint32_t producer, consumer, size; xdp_desc desc[]; }
\* The indices are unsigned and wrap at IndexModulus.  A descriptor is
\* [addr, len]: addr is the UMEM chunk (the byte offset divided by
\* bufferSize), len the class of the frame length: "ok", "runt" (shorter
\* than an Ethernet header) or "bad" (0, or longer than bufferSize).
IndexModulus == 2 ^ IndexBits
RingSizes == {2, 4}
LenClasses == {"ok", "runt", "bad"}
Payloads == 1..MaxPayload

\* A ring as mmap hands it over: zeroed memory with the size set.
NewRing(size) ==
    [producer |-> 0, consumer |-> 0, size |-> size,
     desc |-> [i \in 0..(size - 1) |-> [addr |-> 0, len |-> "bad"]]]

\* producer - consumer in the ring's unsigned arithmetic.
Used(r) == (r.producer - r.consumer) % IndexModulus

NoXsk == [pc |-> "unmapped"]

\* A parsePacketMetadata() that builds the packet over the UMEM chunk itself
\* instead of copying it.
AF_XDPBackend_parsePacketMetadata_borrow(umem, d) ==
    IF d.len = "runt"
    THEN [backing |-> "none", addr |-> d.addr, data |-> 0, captured |-> 0]
    ELSE [backing |-> "umem", addr |-> d.addr, data |-> umem[d.addr],
          captured |-> umem[d.addr]]

\* The packet parsePacketMetadata() builds from the chunk a descriptor names:
\* an empty Packet for a runt frame, else a fresh heap buffer holding a copy
\* of the chunk.  `captured` remembers the bytes the packet was built from.
AF_XDPBackend_parsePacketMetadata(umem, d) ==
    IF d.len = "runt"
    THEN [backing |-> "none", addr |-> d.addr, data |-> 0, captured |-> 0]
    ELSE [backing |-> "heap", addr |-> d.addr, data |-> umem[d.addr],
          captured |-> umem[d.addr]]

\* The bytes a holder of packet p reads now.
PacketBytes(p, umem) == IF p.backing = "umem" THEN umem[p.addr] ELSE p.data

\* initializeRingBuffers(), the seeding loop: numBuffers descriptors are
\* written at desc[producer], the index taken as it is.  A write at an index
\* past the ring lands outside the ring: it is lost to the ring, and it may
\* fault the process.
AF_XDPBackend_initializeRingBuffers_seed ==
    /\ kind = "AF_XDP" /\ xsk.pc = "seed"
    /\ \E fault \in BOOLEAN :
       LET f == xsk.fill
           n == xsk.numBuffers
           inRing == {i \in 0..(n - 1) : f.producer + i < f.size}
       IN  xsk' = [xsk EXCEPT
                !.fill.desc = [j \in 0..(f.size - 1) |->
                    IF j - f.producer \in inRing
                    THEN [addr |-> j - f.producer, len |-> "bad"]
                    ELSE f.desc[j]],
                !.fill.producer = (f.producer + n) % IndexModulus,
                !.oob = \E i \in 0..(n - 1) : i \notin inRing,
                !.pc = IF (\E i \in 0..(n - 1) : i \notin inRing) /\ fault
                       THEN "fault" ELSE "rx"]
    /\ UNCHANGED <<common, pkt, xdpVars, dpdkVars, aux>>

\* The packets processRxQueue() builds from the descriptors first..last-1
\* (indices taken modulo the ring size), skipping the "bad" lengths.
RECURSIVE RxBatch(_, _, _, _)
RxBatch(rx, umem, idx, n) ==
    IF n = 0 THEN <<>>
    ELSE LET d == rx.desc[idx % rx.size]
             rest == RxBatch(rx, umem, (idx + 1) % IndexModulus, n - 1)
         IN  IF d.len = "bad" THEN rest
             ELSE <<AF_XDPBackend_parsePacketMetadata(umem, d)>> \o rest

\* processRxQueue(): consume every descriptor between consumer and the
\* producer index read at entry; queue each packet (and hand it to the
\* callback); then publish the consumer index.
AF_XDPBackend_processRxQueue ==
    /\ kind = "AF_XDP" /\ xsk.pc = "rx"
    /\ xsk' = [xsk EXCEPT
            !.packetQueue = @ \o RxBatch(xsk.rx, xsk.umem, xsk.rx.consumer, Used(xsk.rx)),
            !.rx.consumer = xsk.rx.producer,
            !.pc = "completion"]
    /\ UNCHANGED <<common, pkt, xdpVars, dpdkVars, aux>>

\* The Fill ring after processCompletionQueue() moved n completion
\* descriptors, starting at idx, to it: no check for free space.
RECURSIVE Recycle(_, _, _, _)
Recycle(fill, completion, idx, n) ==
    IF n = 0 THEN fill
    ELSE Recycle([fill EXCEPT
                    !.desc[fill.producer % fill.size].addr =
                        completion.desc[idx % completion.size].addr,
                    !.producer = (fill.producer + 1) % IndexModulus],
                 completion, (idx + 1) % IndexModulus, n - 1)

\* processCompletionQueue()
AF_XDPBackend_processCompletionQueue ==
    /\ kind = "AF_XDP" /\ xsk.pc = "completion"
    /\ xsk' = [xsk EXCEPT
            !.fill = Recycle(xsk.fill, xsk.completion, xsk.completion.consumer,
                             Used(xsk.completion)),
            !.completion.consumer = xsk.completion.producer,
            !.pc = "refill"]
    /\ UNCHANGED <<common, pkt, xdpVars, dpdkVars, aux>>

\* refillQueue(): available = size - (producer - consumer), unsigned; write
\* min(available, numBuffers) descriptors, advance producer by available.
AF_XDPBackend_refillQueue ==
    /\ kind = "AF_XDP" /\ xsk.pc = "refill"
    /\ LET f == xsk.fill
           available == (f.size - Used(f)) % IndexModulus
           written == {i \in 0..(IndexModulus - 1) : i < available /\ i < xsk.numBuffers}
           slotOf(i) == (f.producer + i) % f.size
       IN  xsk' = [xsk EXCEPT
                !.fill.desc = [j \in 0..(f.size - 1) |->
                    IF \E i \in written : slotOf(i) = j
                    THEN LET last == CHOOSE i \in written :
                                /\ slotOf(i) = j
                                /\ \A k \in written : slotOf(k) = j => k <= i
                         IN  [addr |-> (f.producer + last) % xsk.numBuffers,
                              len |-> "bad"]
                    ELSE f.desc[j]],
                !.fill.producer = (f.producer + available) % IndexModulus,
                !.pc = "rx"]
    /\ UNCHANGED <<common, pkt, xdpVars, dpdkVars, aux>>

\* The kernel receives a frame: it takes the next Fill descriptor, writes
\* the frame into that chunk and produces an RX descriptor, when the Fill
\* ring is not empty and the RX ring is not full.
Kernel_receive ==
    /\ kind = "AF_XDP" /\ xsk.pc \in {"rx", "completion", "refill"}
    /\ xsk.frames < MaxFrames
    /\ xsk.fill.producer # xsk.fill.consumer
    /\ Used(xsk.rx) < xsk.rx.size
    /\ \E payload \in Payloads, len \in LenClasses :
        LET addr == xsk.fill.desc[xsk.fill.consumer % xsk.fill.size].addr IN
        xsk' = [xsk EXCEPT
            !.fill.consumer = (@ + 1) % IndexModulus,
            !.umem[addr] = payload,
            !.rx.desc[xsk.rx.producer % xsk.rx.size] = [addr |-> addr, len |-> len],
            !.rx.producer = (@ + 1) % IndexModulus,
            !.frames = @ + 1]
    /\ UNCHANGED <<common, pkt, xdpVars, dpdkVars, aux>>

NextRing ==
    \/ AF_XDPBackend_initializeRingBuffers_seed
    \/ AF_XDPBackend_processRxQueue
    \/ AF_XDPBackend_processCompletionQueue
    \/ AF_XDPBackend_refillQueue
    \/ Kernel_receive

\* The flags of the backend under test, whatever its class.
IsInitialized ==
    CASE kind = "AF_PACKET" -> pkt.initialized
      [] kind = "AF_XDP" -> xdp.initialized
      [] kind = "DPDK" -> dpdk.initialized
      [] kind = "PMD" -> pmd.initialized

IsRunning ==
    CASE kind = "AF_PACKET" -> pkt.running
      [] kind = "AF_XDP" -> xdp.running
      [] kind = "DPDK" -> dpdk.running
      [] kind = "PMD" -> pmd.running

GetLastError ==
    CASE kind = "AF_PACKET" -> pkt.lastError
      [] kind = "AF_XDP" -> ""
      [] kind = "DPDK" -> dpdk.lastError
      [] kind = "PMD" -> pmd.lastError

\* ========================================== blocking pulls and the clock
\* One clock unit is 50 ms.  getPackets() of DPDKBackend and PMDBackend
\* polls with nextPacket(100 ms): two units.
PollInterval == 2

\* The timeouts a caller passes to nextPacket/getPackets, in clock units.
Timeouts == 0..MaxTimeout

\* A thread entering nextPacket/getPackets: it takes packetQueueMutex_ and
\* is about to evaluate the wait predicate.  `deadline` is when its
\* wait_for gives up, `limit` is start + timeout of the whole call.
EnterPull(op, timeout, wait) ==
    [pc |-> "check", op |-> op, start |-> clock, limit |-> clock + timeout,
     deadline |-> clock + wait, cancelled |-> FALSE]

\* nextPacket(timeout) / getPackets(maxPackets, timeout) of AF_PacketBackend,
\* the call.
AF_PacketBackend_pull_call ==
    /\ kind = "AF_PACKET" /\ worker.pc = "idle" /\ ctl \in {"idle", "stop_join"}
    /\ \E op \in {"nextPacket", "getPackets"}, timeout \in Timeouts :
        worker' = EnterPull(op, timeout, timeout)
    /\ UNCHANGED <<common, pkt, xdpVars, dpdkVars, xsk, dmaVars, clock, statVars>>

\* wait_for(lock, timeout, [] { return !packetQueue_.empty(); }): when the
\* predicate holds, pop (one packet, or up to maxPackets) and return; when
\* the deadline has passed, return none/empty; else wait on the condition
\* variable.  running_ is not part of the predicate.
AF_PacketBackend_pull_check ==
    /\ kind = "AF_PACKET" /\ worker.pc = "check"
    /\ IF pkt.packetQueue # <<>>
       THEN LET n == IF worker.op = "nextPacket" THEN 1 ELSE 2 IN
            /\ pulled' = pulled \o Take(pkt.packetQueue, n)
            /\ pkt' = [pkt EXCEPT !.packetQueue = Drop(@, n)]
            /\ call' = Return(worker.op, "packet")
            /\ worker' = WorkerIdle
       ELSE IF clock >= worker.deadline
       THEN /\ call' = Return(worker.op, "none")
            /\ worker' = WorkerIdle
            /\ UNCHANGED <<pulled, pkt>>
       ELSE /\ worker' = [worker EXCEPT !.pc = "blocking"]
            /\ UNCHANGED <<pulled, pkt, call>>
    /\ UNCHANGED <<libVars, kind, ctl, fds, thread, cur, rxSeq, pushed, starts,
                   xdpVars, dpdkVars, xsk, dmaVars, clock, statVars>>

\* nextPacket(timeout) of DPDKBackend and of PMDBackend (the same text), the
\* call; getPackets(maxPackets, timeout), the call: it computes
\* end = now + timeout and enters its polling loop.
DPDKBackend_pull_call ==
    /\ kind \in {"DPDK", "PMD"} /\ worker.pc = "idle" /\ ctl \in {"idle", "stop_join"}
    /\ \E op \in {"nextPacket", "getPackets"}, timeout \in Timeouts :
        worker' = IF op = "nextPacket"
                  THEN EnterPull(op, timeout, timeout)
                  ELSE [EnterPull(op, timeout, 0) EXCEPT !.pc = "poll"]
    /\ UNCHANGED <<common, pkt, xdpVars, dpdkVars, xsk, dmaVars, clock, statVars>>

\* getPackets(), the loop test: while (packets.size() < maxPackets && now <
\* end) call nextPacket(100 ms).  No packet is ever queued by these two
\* backends, so packets stays empty.
DPDKBackend_getPackets_poll ==
    /\ kind \in {"DPDK", "PMD"} /\ worker.pc = "poll"
    /\ IF clock < worker.limit
       THEN /\ worker' = [worker EXCEPT !.pc = "check",
                                        !.deadline = clock + PollInterval]
            /\ UNCHANGED call
       ELSE /\ call' = Return("getPackets", "none")
            /\ worker' = WorkerIdle
    /\ UNCHANGED <<libVars, kind, ctl, fds, thread, cur, rxSeq, pulled, pushed, starts,
                   pkt, xdpVars, dpdkVars, xsk, dmaVars, clock, statVars>>

\* nextPacket(): the queue is empty, so wait_for(lock, timeout, [] { return
\* !packetQueue_.empty() || !running_; }).  It returns none when running_
\* is clear or the deadline has passed; inside getPackets() a none with
\* running_ clear ends the loop, any other none goes back to the loop test.
DPDKBackend_nextPacket_check ==
    /\ kind \in {"DPDK", "PMD"} /\ worker.pc = "check"
    /\ IF ~IsRunning
       THEN /\ call' = Return(worker.op, "none")
            /\ worker' = WorkerIdle
       ELSE IF clock >= worker.deadline
       THEN IF worker.op = "nextPacket"
            THEN /\ call' = Return(worker.op, "none")
                 /\ worker' = WorkerIdle
            ELSE /\ worker' = [worker EXCEPT !.pc = "poll"]
                 /\ UNCHANGED call
       ELSE /\ worker' = [worker EXCEPT !.pc = "blocking"]
            /\ UNCHANGED call
    /\ UNCHANGED <<libVars, kind, ctl, fds, thread, cur, rxSeq, pulled, pushed, starts,
                   pkt, xdpVars, dpdkVars, xsk, dmaVars, clock, statVars>>

\* condition_variable::wait_for, after the predicate was false: the thread
\* releases the mutex and blocks.  A notification sent before this step
\* finds nobody waiting.
wait_for_block ==
    /\ worker.pc = "blocking"
    /\ worker' = [worker EXCEPT !.pc = "blocked"]
    /\ UNCHANGED <<common, pkt, xdpVars, dpdkVars, xsk, dmaVars, clock, statVars>>

\* condition_variable::wait_for, the deadline passes: the thread wakes and
\* evaluates the predicate a last time.
wait_for_timeout ==
    /\ worker.pc = "blocked" /\ clock >= worker.deadline
    /\ worker' = [worker EXCEPT !.pc = "check"]
    /\ UNCHANGED <<common, pkt, xdpVars, dpdkVars, xsk, dmaVars, clock, statVars>>

\* Time passes.  Computation takes no time, and a timer that is due fires
\* before the clock moves on.
Tick ==
    /\ clock < MaxClock
    /\ worker.pc \in {"idle", "blocked"}
    /\ worker.pc = "blocked" => clock < worker.deadline
    /\ clock' = clock + 1
    /\ UNCHANGED <<common, pkt, xdpVars, dpdkVars, xsk, dmaVars, worker, statVars>>

\* The capture lifecycle with a second thread pulling.
NextPull ==
    \/ AF_PacketBackend_start
    \/ AF_PacketBackend_stop
    \/ AF_PacketBackend_stop_joined
    \/ AF_PacketBackend_loop_test
    \/ AF_PacketBackend_recv
    \/ AF_PacketBackend_enqueue
    \/ AF_PacketBackend_invoke_callback
    \/ AF_PacketBackend_pull_call
    \/ AF_PacketBackend_pull_check
    \/ DPDKBackend_start
    \/ DPDKBackend_stop
    \/ DPDKBackend_stop_joined
    \/ DPDKBackend_loop_test
    \/ DPDKBackend_processPackets
    \/ PMDBackend_start
    \/ PMDBackend_stop
    \/ PMDBackend_stop_joined
    \/ PMDBackend_loop_test
    \/ PMDBackend_processPackets
    \/ DPDKBackend_pull_call
    \/ DPDKBackend_getPackets_poll
    \/ DPDKBackend_nextPacket_check
    \/ wait_for_block
    \/ wait_for_timeout
    \/ Tick

\* ============================================ zero-copy and DMA operations
\* The five operations have the same text in the four classes, up to the
\* allocator (mmap of a device in AF_PacketBackend and AF_XDPBackend,
\* rte_malloc in DPDKBackend and PMDBackend).
\* enableZeroCopy(enabled): refused while running, else sets the flag.
enableZeroCopy ==
    /\ ctl = "idle"
    /\ \E enabled \in BOOLEAN :
        IF IsRunning
        THEN /\ enabled
             /\ call' = Return("enableZeroCopy", "INVALID_ARGUMENT")
             /\ UNCHANGED <<dma, zc>>
        ELSE /\ Len(zc) < MaxToggles
             /\ dma' = [dma EXCEPT !.zeroCopyEnabled = enabled]
             /\ zc' = Append(zc, enabled)
             /\ call' = Return("enableZeroCopy", "SUCCESS")
    /\ UNCHANGED <<libVars, kind, ctl, fds, thread, cur, rxSeq, pulled, pushed, starts,
                   pkt, xdpVars, dpdkVars, xsk, mem, appVars, statVars>>

\* enableDMAAccess(enabled, device): refused while running; enables with a
\* non-empty device name, else disables and clears the name.
enableDMAAccess ==
    /\ ctl = "idle"
    /\ \E enabled \in BOOLEAN, device \in DmaDevices :
        IF IsRunning
        THEN /\ enabled /\ device # ""
             /\ call' = Return("enableDMAAccess", "INVALID_ARGUMENT")
             /\ UNCHANGED dma
        ELSE /\ dma' = IF enabled /\ device # ""
                       THEN [dma EXCEPT !.dmaDevice = device, !.dmaAccessEnabled = TRUE]
                       ELSE [dma EXCEPT !.dmaDevice = "", !.dmaAccessEnabled = FALSE]
             /\ call' = Return("enableDMAAccess", "SUCCESS")
    /\ UNCHANGED <<libVars, kind, ctl, fds, thread, cur, rxSeq, pulled, pushed, starts,
                   pkt, xdpVars, dpdkVars, xsk, mem, zc, appVars, statVars>>

\* setDMABufferSize(size): refused while running; 0 selects the default.
setDMABufferSize ==
    /\ ctl = "idle"
    /\ \E size \in 0..MaxDmaSize :
        IF IsRunning
        THEN /\ size = 0
             /\ call' = Return("setDMABufferSize", "INVALID_ARGUMENT")
             /\ UNCHANGED dma
        ELSE /\ dma' = [dma EXCEPT !.dmaBufferSize =
                            IF size = 0 THEN AutoDMABufferSize ELSE size]
             /\ call' = Return("setDMABufferSize", "SUCCESS")
    /\ UNCHANGED <<libVars, kind, ctl, fds, thread, cur, rxSeq, pulled, pushed, starts,
                   pkt, xdpVars, dpdkVars, xsk, mem, zc, appVars, statVars>>

\* allocateDMABuffers(count): running_ is not tested.
allocateDMABuffers ==
    /\ ctl = "idle"
    /\ \E count \in 0..MaxDmaCount, fail \in {"none", "open", "mmap"} :
        IF kind \in {"AF_PACKET", "AF_XDP"}
        THEN LET r == AF_XDPBackend_allocateDMABuffers(dma, fds, mem, count, fail) IN
             /\ r.result = "INVALID_ARGUMENT" => fail = "none" /\ count = 0
             /\ dma' = r.dma /\ fds' = r.fds /\ mem' = r.mem
             /\ call' = Return("allocateDMABuffers", r.result)
        ELSE LET r == DPDKBackend_allocateDMABuffers(dma, eal, mem, count, fail) IN
             /\ fail # "open"
             /\ r.result = "INVALID_ARGUMENT" => fail = "none" /\ count = 0
             /\ dma' = r.dma /\ mem' = r.mem
             /\ call' = Return("allocateDMABuffers", r.result)
             /\ UNCHANGED fds
    /\ UNCHANGED <<libVars, kind, ctl, thread, cur, rxSeq, pulled, pushed, starts,
                   pkt, xdpVars, dpdkVars, xsk, zc, appVars, statVars>>

\* freeDMABuffers(): running_ is not tested.
freeDMABuffers ==
    /\ ctl = "idle"
    /\ IF kind \in {"AF_PACKET", "AF_XDP"}
       THEN LET r == AF_XDPBackend_freeDMABuffers(dma, fds, mem) IN
            dma' = r.dma /\ fds' = r.fds /\ mem' = r.mem
       ELSE LET r == DPDKBackend_freeDMABuffers(dma, mem) IN
            dma' = r.dma /\ mem' = r.mem /\ UNCHANGED fds
    /\ call' = Return("freeDMABuffers", "SUCCESS")
    /\ UNCHANGED <<libVars, kind, ctl, thread, cur, rxSeq, pulled, pushed, starts,
                   pkt, xdpVars, dpdkVars, xsk, zc, appVars, statVars>>

\* ============================================================ statistics
\* getStatistics(): a copy of stats_ taken with statsMutex_ held.  The
\* caller may be any application thread, also while another is in stop().
getStatistics ==
    /\ ctl \in {"idle", "stop_join"}
    /\ seen' = stats
    /\ call' = Return("getStatistics", "SUCCESS")
    /\ UNCHANGED <<libVars, kind, ctl, fds, thread, cur, rxSeq, pulled, pushed, starts,
                   pkt, xdpVars, dpdkVars, xsk, dmaVars, appVars, stats, loaded>>

\* resetStatistics(): stats_ = Statistics{} with statsMutex_ held.  What
\* was observed before the reset no longer bounds what is observed next.
resetStatistics ==
    /\ ctl \in {"idle", "stop_join"}
    /\ stats' = Statistics
    /\ seen' = Statistics
    /\ call' = Return("resetStatistics", "SUCCESS")
    /\ UNCHANGED <<libVars, kind, ctl, fds, thread, cur, rxSeq, pulled, pushed, starts,
                   pkt, xdpVars, dpdkVars, xsk, dmaVars, appVars, loaded>>

\* ===================================================== getConfig, updateConfig
\* getConfig(): a copy of config_, of which the model keeps the interface.
getConfig ==
    CASE kind = "AF_PACKET" -> pkt.interface
      [] kind = "AF_XDP" -> xdp.interface
      [] kind = "DPDK" -> dpdk.interface
      [] kind = "PMD" -> pmd.interface

\* updateConfig(config) called by a second application thread while the
\* first may be in start() or stop(): the test of running_.  No lock is
\* taken, so the assignment that follows is a step of its own.
updateConfig_test ==
    /\ worker.pc = "idle" /\ ctl \in {"idle", "stop_join"}
    /\ \E interface \in ExistingInterfaces :
        IF IsRunning
        THEN /\ interface = "eth0"
             /\ call' = Return("updateConfig", "INVALID_ARGUMENT")
             /\ UNCHANGED worker
        ELSE /\ worker' = [pc |-> "assign", config |-> interface]
             /\ UNCHANGED call
    /\ UNCHANGED <<libVars, kind, ctl, fds, thread, cur, rxSeq, pulled, pushed, starts,
                   pkt, xdpVars, dpdkVars, xsk, dmaVars, clock, statVars>>

\* updateConfig(config): config_ = config, and the return.
updateConfig_assign ==
    /\ worker.pc = "assign"
    /\ pkt' = IF kind = "AF_PACKET" THEN [pkt EXCEPT !.interface = worker.config] ELSE pkt
    /\ xdp' = IF kind = "AF_XDP" THEN [xdp EXCEPT !.interface = worker.config] ELSE xdp
    /\ dpdk' = IF kind = "DPDK" THEN [dpdk EXCEPT !.interface = worker.config] ELSE dpdk
    /\ pmd' = IF kind = "PMD" THEN [pmd EXCEPT !.interface = worker.config] ELSE pmd
    /\ call' = Return("updateConfig", "SUCCESS")
    /\ worker' = WorkerIdle
    /\ UNCHANGED <<libVars, kind, ctl, fds, thread, cur, rxSeq, pulled, pushed, starts,
                   loader, xdpAttached, lastBind, eal, xsk, dmaVars, clock, statVars>>

\* ------------------------------------------------------------ PacketFilter
\* The packets offered to a chain: Ethernet frames that carry an IPv4 header
\* with this protocol.
Packets == {"tcp", "udp"}

\* FilterConfig and FilterEntry: the filter types of the chain, the
\* expressions of a PROTOCOL filter, and the predicates installed with
\* setCustomFilter: none, one that accepts, one that rejects, one that throws.
FilterTypes == {"PROTOCOL", "CUSTOM"}
Expressions == {"tcp"}
CustomFuncs == {"accept", "reject", "throw"}
FilterConfigs ==
    [type : {"PROTOCOL"}, expression : Expressions, enabled : BOOLEAN,
     priority : 0..MaxPriority]
    \cup [type : {"CUSTOM"}, expression : {""}, enabled : BOOLEAN,
          priority : 0..MaxPriority]

\* An empty unordered_map.
EmptyMap == [name \in {} |-> 0]

\* map[key] = value on an unordered_map.
MapPut(map, key, value) ==
    [k \in DOMAIN map \cup {key} |-> IF k = key THEN value ELSE map[k]]

\* FilterStats as its default member initializers leave it.
FilterStats == [packetsProcessed |-> 0, packetsPassed |-> 0, packetsDropped |-> 0,
                filterCounts |-> EmptyMap]

\* No applyFilters call has returned yet.
NoVerdict == [passed |-> TRUE, filterName |-> "", thrown |-> FALSE,
              packet |-> "", ran |-> <<>>]

PacketFilter_applyProtocolFilter(packet, config) ==
    IF config.expression = "" THEN "true"
    ELSE IF config.expression = "tcp" /\ packet = "tcp" THEN "true"
    ELSE IF config.expression = "udp" /\ packet = "udp" THEN "true"
    ELSE "false"

\* The outcome of the predicate call: its value, or the exception it throws.
PacketFilter_applyCustomFilter(packet, entry) ==
    IF entry.customFunc = "null" THEN "true"
    ELSE IF entry.customFunc = "accept" THEN "true"
    ELSE IF entry.customFunc = "reject" THEN "false"
    ELSE "throw"

\* The switch on config.type inside the loop of applyFilters.
PacketFilter_filterResult(packet, entry) ==
    IF entry.config.type = "PROTOCOL"
    THEN PacketFilter_applyProtocolFilter(packet, entry.config)
    ELSE PacketFilter_applyCustomFilter(packet, entry)

EnabledFilters(fs) == {name \in DOMAIN fs : fs[name].config.enabled}

\* sortedFilters without the std::sort: the enabled entries in any order.
UnsortedFilters(fs) ==
    LET names == EnabledFilters(fs)
    IN  {s \in [1..Cardinality(names) -> names] :
            \A i, j \in DOMAIN s : i # j => s[i] # s[j]}

\* sortedFilters after std::sort: the enabled entries by descending
\* priority; entries of equal priority in any order, since neither the
\* iteration of the unordered_map nor std::sort fixes one.
SortedFilters(fs) ==
    LET names == EnabledFilters(fs)
    IN  {s \in [1..Cardinality(names) -> names] :
            /\ \A i, j \in DOMAIN s : i # j => s[i] # s[j]
            /\ \A i, j \in DOMAIN s :
                   i < j => fs[s[i]].config.priority >= fs[s[j]].config.priority}

\* The loop of applyFilters from position i of sortedFilters, with the
\* result built so far.
RECURSIVE PacketFilter_walk(_, _, _, _, _)
PacketFilter_walk(fs, sorted, i, packet, result) ==
    IF i > Len(sorted) THEN result
    ELSE LET name == sorted[i]
             filterResult == PacketFilter_filterResult(packet, fs[name])
             ran == Append(result.ran, name)
         IN  IF filterResult = "throw"
             THEN [result EXCEPT !.thrown = TRUE, !.ran = ran]
             ELSE IF filterResult = "false"
             THEN [result EXCEPT !.passed = FALSE, !.filterName = name, !.ran = ran]
             ELSE PacketFilter_walk(fs, sorted, i + 1, packet,
                                    [result EXCEPT !.filterName = name, !.ran = ran])

PacketFilter_updateStats(s, filterName, passed) ==
    [packetsProcessed |-> s.packetsProcessed + 1,
     packetsPassed |-> s.packetsPassed + (IF passed THEN 1 ELSE 0),
     packetsDropped |-> s.packetsDropped + (IF passed THEN 0 ELSE 1),
     filterCounts |->
         MapPut(s.filterCounts, filterName,
                (IF filterName \in DOMAIN s.filterCounts
                 THEN s.filterCounts[filterName] ELSE 0) + 1)]

PacketFilter_addFilter ==
    /\ \E name \in FilterNames, config \in FilterConfigs :
        IF name \in DOMAIN filters
        THEN /\ call' = Return("addFilter", "INVALID_ARGUMENT")
             /\ UNCHANGED filters
        ELSE /\ filters' = MapPut(filters, name,
                                  [config |-> config, customFunc |-> "null"])
             /\ call' = Return("addFilter", "SUCCESS")
    /\ UNCHANGED <<notFilter, filterStats, verdict>>

PacketFilter_removeFilter ==
    /\ \E name \in FilterNames :
        IF name \notin DOMAIN filters
        THEN /\ call' = Return("removeFilter", "INVALID_ARGUMENT")
             /\ UNCHANGED filters
        ELSE /\ filters' = [n \in DOMAIN filters \ {name} |-> filters[n]]
             /\ call' = Return("removeFilter", "SUCCESS")
    /\ UNCHANGED <<notFilter, filterStats, verdict>>

PacketFilter_setFilterEnabled ==
    /\ \E name \in FilterNames, enabled \in BOOLEAN :
        IF name \notin DOMAIN filters
        THEN /\ call' = Return("setFilterEnabled", "INVALID_ARGUMENT")
             /\ UNCHANGED filters
        ELSE /\ filters' = [filters EXCEPT ![name].config.enabled = enabled]
             /\ call' = Return("setFilterEnabled", "SUCCESS")
    /\ UNCHANGED <<notFilter, filterStats, verdict>>

\* The predicates are installed on CUSTOM filters, the only ones that call
\* them.
PacketFilter_setCustomFilter ==
    /\ \E name \in FilterNames, filterFunc \in CustomFuncs :
        IF name \notin DOMAIN filters
        THEN /\ call' = Return("setCustomFilter", "INVALID_ARGUMENT")
             /\ UNCHANGED filters
        ELSE /\ filters[name].config.type = "CUSTOM"
             /\ filters' = [filters EXCEPT ![name].customFunc = filterFunc]
             /\ call' = Return("setCustomFilter", "SUCCESS")
    /\ UNCHANGED <<notFilter, filterStats, verdict>>

\* applyFilters(packet). An exception of a predicate leaves the function
\* through the lock_guard of filtersMutex_ before updateStats is reached.
PacketFilter_applyFilters ==
    /\ filterStats.packetsProcessed < MaxApplied
    /\ \E packet \in Packets, sorted \in SortedFilters(filters) :
        LET result == PacketFilter_walk(filters, sorted, 1, packet,
                                        [NoVerdict EXCEPT !.packet = packet])
        IN  /\ verdict' = result
            /\ IF result.thrown
               THEN /\ call' = Return("applyFilters", "exception")
                    /\ UNCHANGED filterStats
               ELSE /\ call' = Return("applyFilters",
                                      IF result.passed THEN "passed" ELSE "rejected")
                    /\ filterStats' = PacketFilter_updateStats(
                                          filterStats, result.filterName, result.passed)
    /\ UNCHANGED <<notFilter, filters>>

PacketFilter_resetStats ==
    /\ filterStats # FilterStats
    /\ filterStats' = FilterStats
    /\ call' = Return("resetStats", "SUCCESS")
    /\ UNCHANGED <<notFilter, filters, verdict>>

NextFilter ==
    \/ PacketFilter_addFilter
    \/ PacketFilter_removeFilter
    \/ PacketFilter_setFilterEnabled
    \/ PacketFilter_setCustomFilter
    \/ PacketFilter_applyFilters
    \/ PacketFilter_resetStats

\* The octets of the addresses and the prefix lengths given to isIPInRange.
Octets == {10, 11, 255}
Addresses == [1..4 -> Octets]
PrefixLens == {0, 1, 24, 31, 32}

\* No isIPInRange call has returned yet.
NoRange == [ip |-> <<>>, network |-> <<>>, prefixLen |-> 0, result |-> "none"]

\* a & b on operands of the given number of bits.
RECURSIVE BitAnd(_, _, _)
BitAnd(a, b, bits) ==
    IF bits = 0 THEN 0
    ELSE (a % 2) * (b % 2) + 2 * BitAnd(a \div 2, b \div 2, bits - 1)

RECURSIVE Pow2(_)
Pow2(n) == IF n = 0 THEN 1 ELSE 2 * Pow2(n - 1)

\* Octet i, most significant first, of the uint32_t 0xFFFFFFFF << count for
\* a count below 32.
ShiftedOnes(count) ==
    [i \in 1..4 |->
        LET low == 32 - 8 * i
        IN  IF count <= low THEN 255
            ELSE IF count >= low + 8 THEN 0
            ELSE 256 - Pow2(count - low)]

\* 0xFFFFFFFF << (32 - prefixLen) & 0xFFFFFFFF.  The left operand is a 32-bit
\* unsigned int, so a count of 32 is undefined: a build whose shift
\* instruction takes the count modulo 32 leaves the operand as it is, a build
\* that shifts by the full count or folds the shift yields 0.
IPMasks(prefixLen) ==
    IF prefixLen = 0 THEN {ShiftedOnes(0), [i \in 1..4 |-> 0]}
    ELSE {ShiftedOnes(32 - prefixLen)}

\* parseIPAddress: the dotted tokens, each through stoi and a cast to
\* uint8_t.
PacketFilter_parseIPAddress(tokens) == [i \in DOMAIN tokens |-> tokens[i] % 256]

\* The CIDR branch of isIPInRange with the mask the build computed; the
\* 32-bit words are compared octet by octet.
PacketFilter_isIPInRange(ip, networkStr, mask) ==
    LET network == PacketFilter_parseIPAddress(networkStr)
    IN  /\ Len(network) = 4
        /\ \A i \in 1..4 : BitAnd(network[i], mask[i], 8) = BitAnd(ip[i], mask[i], 8)

\* isIPInRange(ip, "A.B.C.D/prefixLen").
PacketFilter_isIPInRange_call ==
    /\ range.result = "none"
    /\ \E ip \in Addresses, network \in Addresses, prefixLen \in PrefixLens :
         \E mask \in IPMasks(prefixLen) :
            range' = [ip |-> ip, network |-> network, prefixLen |-> prefixLen,
                      result |-> IF PacketFilter_isIPInRange(ip, network, mask)
                                 THEN "true" ELSE "false"]
    /\ UNCHANGED <<notCall, call, filterVars, registryVars, parserVars, pool, ctx>>

NextRange == PacketFilter_isIPInRange_call

\* -------------------------------------------------------- ProtocolRegistry
\* The names the application registers, unregisters and looks up, and the
\* definitions it registers under them.
ProtocolNames == {"tcp", "sip"}
ProtocolDefinitions == [name : ProtocolNames, version : {"1.0", "9.9"}]

\* What initializeBuiltinProtocols() stores in protocols_.
BuiltinProtocols ==
    [name \in {"ethernet", "ipv4", "tcp", "udp", "icmp"} |->
        [name |-> name,
         version |-> IF name = "ethernet" THEN "2.0"
                     ELSE IF name = "ipv4" THEN "4.0" ELSE "1.0"]]

\* The threads that call getProtocol.
Readers == 1..MaxReaders

\* A registry as its default constructor leaves it.
ProtocolRegistry_ctor == [protocols |-> EmptyMap, usageCount |-> EmptyMap]

ReaderIdle == [pc |-> "idle", name |-> "", count |-> 0]

\* registryMutex_ is free for a unique_lock: no thread holds it shared.  The
\* writers below run from their lock to their return in one step.
NoReaderInside == \A t \in Readers : readers[t].pc = "idle"

MapErase(map, key) == [k \in DOMAIN map \ {key} |-> map[k]]

\* unregisterProtocol without its usageCount_.erase(name).
ProtocolRegistry_unregisterProtocol_keepCount(reg, name) ==
    IF name \notin DOMAIN reg.protocols THEN [ok |-> FALSE, reg |-> reg]
    ELSE [ok |-> TRUE,
          reg |-> [reg EXCEPT !.protocols = MapErase(reg.protocols, name)]]

ProtocolRegistry_registerProtocol(reg, protocol) ==
    IF protocol.name \in DOMAIN reg.protocols THEN [ok |-> FALSE, reg |-> reg]
    ELSE [ok |-> TRUE,
          reg |-> [protocols |-> MapPut(reg.protocols, protocol.name, protocol),
                   usageCount |-> MapPut(reg.usageCount, protocol.name, 0)]]

ProtocolRegistry_unregisterProtocol(reg, name) ==
    IF name \notin DOMAIN reg.protocols THEN [ok |-> FALSE, reg |-> reg]
    ELSE [ok |-> TRUE,
          reg |-> [protocols |-> MapErase(reg.protocols, name),
                   usageCount |-> MapErase(reg.usageCount, name)]]

ProtocolRegistry_initializeBuiltinProtocols(reg) ==
    LET protocols == [name \in DOMAIN reg.protocols \cup DOMAIN BuiltinProtocols |->
                         IF name \in DOMAIN BuiltinProtocols
                         THEN BuiltinProtocols[name] ELSE reg.protocols[name]]
    IN  [protocols |-> protocols,
         usageCount |-> [name \in DOMAIN reg.usageCount \cup DOMAIN protocols |->
                            IF name \in DOMAIN protocols THEN 0
                            ELSE reg.usageCount[name]]]

ProtocolRegistry_registerProtocol_call ==
    /\ NoReaderInside
    /\ \E protocol \in ProtocolDefinitions :
        LET r == ProtocolRegistry_registerProtocol(registry, protocol)
        IN  /\ registry' = r.reg
            /\ prior' = [name |-> protocol.name, reg |-> registry]
            /\ gets' = IF r.ok THEN [gets EXCEPT ![protocol.name] = 0] ELSE gets
            /\ call' = Return("registerProtocol", IF r.ok THEN "true" ELSE "false")
    /\ UNCHANGED <<notRegistry, readers>>

ProtocolRegistry_unregisterProtocol_call ==
    /\ NoReaderInside
    /\ \E name \in ProtocolNames :
        LET r == ProtocolRegistry_unregisterProtocol(registry, name)
        IN  /\ registry' = r.reg
            /\ prior' = [prior EXCEPT !.name = name]
            /\ gets' = IF r.ok THEN [gets EXCEPT ![name] = 0] ELSE gets
            /\ call' = Return("unregisterProtocol", IF r.ok THEN "true" ELSE "false")
    /\ UNCHANGED <<notRegistry, readers>>

ProtocolRegistry_loadBuiltinProtocols ==
    /\ NoReaderInside
    /\ registry' = ProtocolRegistry_initializeBuiltinProtocols(registry)
    /\ gets' = [name \in ProtocolNames |-> 0]
    /\ call' = Return("loadBuiltinProtocols", "void")
    /\ UNCHANGED <<notRegistry, readers, prior>>

\* getProtocol(name) up to the read of usageCount_[name]++: the shared_lock,
\* which any number of threads may hold, the find, and for a name that is
\* not registered the return of nullptr.
ProtocolRegistry_getProtocol_load(t) ==
    /\ readers[t].pc = "idle"
    /\ \E name \in ProtocolNames :
        IF name \in DOMAIN registry.protocols
        THEN /\ gets[name] + Cardinality({u \in Readers : readers[u].name = name})
                  < MaxGets
             /\ readers' = [readers EXCEPT ![t] =
                               [pc |-> "found", name |-> name,
                                count |-> registry.usageCount[name]]]
             /\ UNCHANGED call
        ELSE /\ call' = Return("getProtocol", "nullptr")
             /\ UNCHANGED readers
    /\ UNCHANGED <<notRegistry, registry, prior, gets>>

\* The write of usageCount_[name]++ and the return of &it->second, which
\* releases the shared_lock.
ProtocolRegistry_getProtocol_store(t) ==
    /\ readers[t].pc = "found"
    /\ registry' = [registry EXCEPT !.usageCount[readers[t].name] = readers[t].count + 1]
    /\ gets' = [gets EXCEPT ![readers[t].name] = @ + 1]
    /\ readers' = [readers EXCEPT ![t] = ReaderIdle]
    /\ call' = Return("getProtocol", "found")
    /\ UNCHANGED <<notRegistry, prior>>

NextRegistry ==
    \/ ProtocolRegistry_registerProtocol_call
    \/ ProtocolRegistry_unregisterProtocol_call
    \/ ProtocolRegistry_loadBuiltinProtocols
    \/ \E t \in Readers : ProtocolRegistry_getProtocol_load(t)
    \/ \E t \in Readers : ProtocolRegistry_getProtocol_store(t)

\* ----------------------------------------------------------- ProtocolParser
\* The packets given to the parser and the durations its clock measures.
PacketBytes8 == {0, 1}
ParserPackets == UNION {[1..n -> PacketBytes8] : n \in 0..MaxPacketLen}
ParseTimes == 1..MaxParseTime

\* FieldDefinition and ProtocolDefinition: fields of one or two bytes, named
\* after their position; a field of one byte can carry the constraint
\* minValue = maxValue = 1.
FieldShapes ==
    [offset : 0..MaxFieldOffset, length : {1}, required : BOOLEAN, constraint : BOOLEAN]
    \cup [offset : 0..MaxFieldOffset, length : {2}, required : BOOLEAN,
          constraint : {FALSE}]
FieldLists == UNION {[1..n -> FieldShapes] : n \in 1..2}
FieldName(i) == IF i = 1 THEN "f1" ELSE "f2"
ParserDefinitions == [name : ProtocolNames, fields : FieldLists]

\* The definition the application registers with a parser under each name.
RegisteredDefinition(name) ==
    [name |-> name,
     fields |-> IF name = "tcp"
                THEN <<[offset |-> 0, length |-> 2, required |-> TRUE,
                        constraint |-> FALSE]>>
                ELSE <<[offset |-> 1, length |-> 1, required |-> FALSE,
                        constraint |-> TRUE],
                       [offset |-> 0, length |-> 1, required |-> TRUE,
                        constraint |-> FALSE]>>]

\* std::chrono::microseconds::max(), the initial minParseTime: above every
\* duration the clock measures.
MicrosecondsMax == 2147483647

\* ParserStats as its default member initializers leave it.
ParserStats ==
    [totalPacketsParsed |-> 0, successfulParses |-> 0, failedParses |-> 0,
     totalParseTime |-> 0, averageParseTime |-> 0,
     minParseTime |-> MicrosecondsMax, maxParseTime |-> 0,
     protocolUsageCount |-> EmptyMap]

ProtocolParser_ctor == [protocols |-> EmptyMap, stats |-> ParserStats, alive |-> TRUE]

\* ParseResult as its default constructor leaves it.
ParseResult ==
    [status |-> "SUCCESS", protocolName |-> "", fields |-> EmptyMap,
     validationResults |-> <<>>, parsedBytes |-> 0]

\* No parsePacket call has returned yet.
NoParse == [result |-> ParseResult, protocol |-> [name |-> "", fields |-> <<>>],
            packet |-> <<>>]

Max(a, b) == IF a > b THEN a ELSE b

\* getTotalLength that returns the end of the first field.
ProtocolDefinition_getTotalLength_first(fields) ==
    IF fields = <<>> THEN 0 ELSE fields[1].offset + fields[1].length

\* The loop of getTotalLength from field i on.
RECURSIVE ProtocolDefinition_getTotalLength_from(_, _, _, _)
ProtocolDefinition_getTotalLength_from(fields, i, maxOffset, maxLength) ==
    IF i > Len(fields) THEN maxOffset + maxLength
    ELSE IF fields[i].offset + fields[i].length > maxOffset + maxLength
    THEN ProtocolDefinition_getTotalLength_from(fields, i + 1, fields[i].offset,
                                                fields[i].length)
    ELSE ProtocolDefinition_getTotalLength_from(fields, i + 1, maxOffset, maxLength)

ProtocolDefinition_getTotalLength(fields) ==
    IF fields = <<>> THEN 0
    ELSE ProtocolDefinition_getTotalLength_from(fields, 1, 0, 0)

\* extractField for the integer and byte types: valid with the bytes of the
\* field when the field lies inside the packet.
ProtocolParser_extractField(packet, field) ==
    IF field.offset + field.length > Len(packet)
    THEN [valid |-> FALSE, value |-> <<>>]
    ELSE [valid |-> TRUE,
          value |-> SubSeq(packet, field.offset + 1, field.offset + field.length)]

\* validateField: the range check of a constrained UINT8 field.
ProtocolParser_validateField(value, field) ==
    /\ value.valid
    /\ field.constraint => value.value[1] = 1

\* The loop of parsePacketInternal from field i on.
RECURSIVE ProtocolParser_parseFields(_, _, _, _)
ProtocolParser_parseFields(packet, fields, i, result) ==
    IF i > Len(fields) THEN result
    ELSE LET field == fields[i]
         IN  IF field.offset + field.length > Len(packet)
             THEN ProtocolParser_parseFields(packet, fields, i + 1, result)
             ELSE LET fieldValue == ProtocolParser_extractField(packet, field)
                      r1 == [result EXCEPT
                                !.fields = MapPut(@, FieldName(i), fieldValue),
                                !.parsedBytes = Max(@, field.offset + field.length)]
                      r2 == IF ProtocolParser_validateField(fieldValue, field) THEN r1
                            ELSE [r1 EXCEPT !.validationResults =
                                                Append(@, FieldName(i))]
                  IN  ProtocolParser_parseFields(packet, fields, i + 1, r2)

\* parsePacketInternal with validation enabled, as ParserConfig() leaves it;
\* validateChecksum returns true.
ProtocolParser_parsePacketInternal(packet, protocol) ==
    LET r0 == [ParseResult EXCEPT !.protocolName = protocol.name]
    IN  IF Len(packet) < ProtocolDefinition_getTotalLength(protocol.fields)
        THEN [r0 EXCEPT !.status = "PACKET_TOO_SHORT"]
        ELSE ProtocolParser_parseFields(packet, protocol.fields, 1, r0)

\* updateStats up to the division, and the average it then stores.
ProtocolParser_updateStats(s, result, parseTime, averageParseTime) ==
    [totalPacketsParsed |-> s.totalPacketsParsed + 1,
     successfulParses |-> s.successfulParses + (IF result.status = "SUCCESS" THEN 1 ELSE 0),
     failedParses |-> s.failedParses + (IF result.status = "SUCCESS" THEN 0 ELSE 1),
     totalParseTime |-> s.totalParseTime + parseTime,
     averageParseTime |-> averageParseTime,
     minParseTime |-> IF parseTime < s.minParseTime THEN parseTime ELSE s.minParseTime,
     maxParseTime |-> IF parseTime > s.maxParseTime THEN parseTime ELSE s.maxParseTime,
     protocolUsageCount |->
         MapPut(s.protocolUsageCount, result.protocolName,
                (IF result.protocolName \in DOMAIN s.protocolUsageCount
                 THEN s.protocolUsageCount[result.protocolName] ELSE 0) + 1)]

\* The part of parsePacket that its two overloads share, with performance
\* metrics enabled as ParserConfig() leaves them.  totalParseTime /
\* successfulParses with no successful parse so far is an integer division
\* by zero: the build traps, or the division yields 0.
ProtocolParser_parseAndCount(packet, protocol) ==
    \E parseTime \in ParseTimes, divideByZero \in {"trap", "zero"} :
        LET result == ProtocolParser_parsePacketInternal(packet, protocol)
            successes == parser.stats.successfulParses
                             + (IF result.status = "SUCCESS" THEN 1 ELSE 0)
            total == parser.stats.totalParseTime + parseTime
        IN  /\ parses' = [parses EXCEPT ![protocol.name] = @ + 1]
            /\ parse' = [result |-> result, protocol |-> protocol, packet |-> packet]
            /\ IF successes = 0 /\ divideByZero = "trap"
               THEN /\ parser' = [parser EXCEPT !.alive = FALSE]
                    /\ call' = Return("parsePacket", "SIGFPE")
               ELSE /\ successes > 0 => divideByZero = "zero"
                    /\ parser' = [parser EXCEPT !.stats =
                           ProtocolParser_updateStats(
                               @, result, parseTime,
                               IF successes = 0 THEN 0 ELSE total \div successes)]
                    /\ call' = Return("parsePacket", result.status)

ProtocolParser_registerProtocol ==
    /\ parser.alive
    /\ \E name \in ProtocolNames :
        IF name \in DOMAIN parser.protocols
        THEN /\ call' = Return("registerProtocol", "false")
             /\ UNCHANGED parser
        ELSE /\ parser' = [parser EXCEPT !.protocols =
                              MapPut(@, name, RegisteredDefinition(name))]
             /\ call' = Return("registerProtocol", "true")
    /\ UNCHANGED <<notParser, parse, parses>>

ProtocolParser_unregisterProtocol ==
    /\ parser.alive
    /\ \E name \in ProtocolNames :
        IF name \notin DOMAIN parser.protocols
        THEN /\ call' = Return("unregisterProtocol", "false")
             /\ UNCHANGED parser
        ELSE /\ parser' = [parser EXCEPT !.protocols = MapErase(@, name)]
             /\ call' = Return("unregisterProtocol", "true")
    /\ UNCHANGED <<notParser, parse, parses>>

\* parsePacket(packet, protocolName) with a name that is not empty.
ProtocolParser_parsePacket ==
    /\ parser.alive
    /\ parses["tcp"] + parses["sip"] < MaxParses
    /\ \E packet \in ParserPackets, protocolName \in ProtocolNames :
        IF protocolName \notin DOMAIN parser.protocols
        THEN /\ parse' = [result |-> [ParseResult EXCEPT !.status = "PROTOCOL_NOT_FOUND"],
                          protocol |-> [name |-> protocolName, fields |-> <<>>],
                          packet |-> packet]
             /\ parses' = [parses EXCEPT ![protocolName] = @ + 1]
             /\ call' = Return("parsePacket", "PROTOCOL_NOT_FOUND")
             /\ UNCHANGED parser
        ELSE ProtocolParser_parseAndCount(packet, parser.protocols[protocolName])
    /\ UNCHANGED notParser

\* parsePacket(packet, protocol) with a definition given by the caller.
ProtocolParser_parsePacket_definition ==
    /\ parser.alive
    /\ parses["tcp"] + parses["sip"] < MaxDirectParses
    /\ \E packet \in ParserPackets, protocol \in ParserDefinitions :
        ProtocolParser_parseAndCount(packet, protocol)
    /\ UNCHANGED notParser

NextParser ==
    \/ ProtocolParser_registerProtocol
    \/ ProtocolParser_unregisterProtocol
    \/ ProtocolParser_parsePacket

NextParse == ProtocolParser_parsePacket_definition

\* ============================================================ ThreadPool
\* Tasks are numbered in the order submit() accepts them.
MaxThreads == 2
MaxTasks == 4
Workers == 1..MaxThreads
Tasks == 1..MaxTasks

\* ThreadPool(numThreads): one ThreadInfo per thread, running{true}, an
\* empty localQueue, and the worker thread started at the top of its loop.
\* `joining` is the thread shutdown() is joining, 0 before shutdown().
ThreadPool_ctor(numThreads) ==
    [shutdown |-> FALSE, paused |-> FALSE, joining |-> 0,
     globalQueue |-> <<>>,
     localQueue |-> [w \in 1..numThreads |-> <<>>],
     running |-> [w \in 1..numThreads |-> TRUE],
     pc |-> [w \in 1..numThreads |-> "loop"],
     accepted |-> 0, executed |-> {}, dropped |-> {}]

\* submit(f): throws when shutdown_ is set; else pushes the task to
\* globalQueue_ under globalQueueMutex_, notifies globalCondition_ and
\* returns the future.
ThreadPool_submit ==
    /\ ~pool.shutdown /\ pool.accepted < MaxTasks
    /\ pool' = [pool EXCEPT !.globalQueue = Append(@, pool.accepted + 1),
                            !.accepted = @ + 1]
    /\ UNCHANGED notPool

\* pause()
ThreadPool_pause ==
    /\ ~pool.paused
    /\ pool' = [pool EXCEPT !.paused = TRUE]
    /\ UNCHANGED notPool

\* resume(): clears paused_ and notifies every condition; a worker that is
\* woken evaluates the predicate of its wait again.
ThreadPool_resume ==
    /\ pool.paused
    /\ pool' = [pool EXCEPT !.paused = FALSE]
    /\ UNCHANGED notPool

\* shutdown(), up to the first join: shutdown_ is set, the first thread's
\* running flag is cleared and its condition notified.
ThreadPool_shutdown ==
    /\ pool.joining = 0
    /\ pool' = [pool EXCEPT !.shutdown = TRUE, !.running[1] = FALSE, !.joining = 1]
    /\ UNCHANGED notPool

\* shutdown(), a join returned: the next thread's flag is cleared and its
\* condition notified, or the loop over threads_ ends.
ThreadPool_shutdown_joined ==
    /\ pool.joining \in Workers /\ pool.pc[pool.joining] = "exited"
    /\ pool' = IF pool.joining < MaxThreads
               THEN [pool EXCEPT !.running[pool.joining + 1] = FALSE,
                                 !.joining = @ + 1]
               ELSE [pool EXCEPT !.joining = @ + 1]
    /\ UNCHANGED notPool

\* workerFunction(threadId), while (threadInfo->running.load())
ThreadPool_workerFunction_test(w) ==
    /\ pool.pc[w] = "loop"
    /\ pool' = [pool EXCEPT !.pc[w] = IF pool.running[w] THEN "wait" ELSE "exited"]
    /\ UNCHANGED notPool

\* workerFunction(threadId), one iteration: the thread blocks in
\* condition.wait until its running flag is clear or its localQueue is not
\* empty.  It leaves the loop in the first case.  In the second it pops the
\* front of localQueue, so hasTask is true and the block that would wait
\* for globalQueue_ is skipped; the task is run when paused_ is clear and
\* destroyed without being run when it is set.
ThreadPool_workerFunction_wait(w) ==
    /\ pool.pc[w] = "wait"
    /\ ~pool.running[w] \/ pool.localQueue[w] # <<>>
    /\ pool' = IF ~pool.running[w]
               THEN [pool EXCEPT !.pc[w] = "exited"]
               ELSE LET task == Head(pool.localQueue[w]) IN
                    [pool EXCEPT !.localQueue[w] = Tail(@),
                                 !.executed = IF pool.paused THEN @ ELSE @ \cup {task},
                                 !.dropped = IF pool.paused THEN @ \cup {task} ELSE @,
                                 !.pc[w] = "loop"]
    /\ UNCHANGED notPool

NextPool ==
    \/ ThreadPool_submit
    \/ ThreadPool_pause
    \/ ThreadPool_resume
    \/ ThreadPool_shutdown
    \/ ThreadPool_shutdown_joined
    \/ \E w \in Workers : ThreadPool_workerFunction_test(w)
    \/ \E w \in Workers : ThreadPool_workerFunction_wait(w)

\* The workers are threads of their own and run whenever they can; a pool
\* that is paused is resumed; a join that can return does.
FairPool ==
    /\ \A w \in Workers : WF_vars(ThreadPool_workerFunction_test(w))
    /\ \A w \in Workers : WF_vars(ThreadPool_workerFunction_wait(w))
    /\ WF_vars(ThreadPool_resume)
    /\ WF_vars(ThreadPool_shutdown_joined)

\* ======================================================= BeatriceContext
MaxContexts == 3
MaxBatches == 2
Contexts == 1..MaxContexts

\* Before any context exists: the static running_ is 1.
NoContexts ==
    [running |-> 1,
     pc |-> [c \in Contexts |-> "none"],
     dispatched |-> [c \in Contexts |-> 0],
     stopped |-> [c \in Contexts |-> FALSE]]

\* BeatriceContext(backend, pluginMgr).  The application creates its next
\* context after the one before has been shut down or stopped by a signal.
BeatriceContext_ctor(c) ==
    /\ ctx.pc[c] = "none"
    /\ \A d \in Contexts : d < c => ctx.stopped[d]
    /\ ctx' = [ctx EXCEPT !.pc[c] = "created"]
    /\ UNCHANGED notContext

\* initialize(): configuration, metrics, backend, plugins, signal handlers;
\* false when one of the first three fails.
BeatriceContext_initialize(c) ==
    /\ ctx.pc[c] = "created" /\ ~ctx.stopped[c]
    /\ \E ok \in BOOLEAN :
        ctx' = [ctx EXCEPT !.pc[c] = IF ok THEN "initialized" ELSE "created"]
    /\ UNCHANGED notContext

\* run(): start the backend, return when that fails, else enter
\* runSingleThreaded().
BeatriceContext_run(c) ==
    /\ ctx.pc[c] = "initialized" /\ ~ctx.stopped[c]
    /\ \E started \in BOOLEAN :
        ctx' = [ctx EXCEPT !.pc[c] = IF started THEN "run" ELSE "returned"]
    /\ UNCHANGED notContext

\* runSingleThreaded(), while (running_)
BeatriceContext_runSingleThreaded_test(c) ==
    /\ ctx.pc[c] = "run"
    /\ ctx.running = 0 \/ ctx.dispatched[c] < MaxBatches
    /\ ctx' = [ctx EXCEPT !.pc[c] = IF ctx.running # 0 THEN "batch" ELSE "returned"]
    /\ UNCHANGED notContext

\* runSingleThreaded(), the body of the loop: getPackets and, per packet,
\* processPacket when running_ is still set.
BeatriceContext_runSingleThreaded_batch(c) ==
    /\ ctx.pc[c] = "batch"
    /\ ctx' = [ctx EXCEPT !.dispatched[c] = IF ctx.running # 0 THEN @ + 1 ELSE @,
                          !.pc[c] = "run"]
    /\ UNCHANGED notContext

\* shutdown(), called by the application or by the destructor: running_ = 0,
\* the backend is stopped and released.
BeatriceContext_shutdown(c) ==
    /\ ctx.pc[c] # "none" /\ ~ctx.stopped[c]
    /\ ctx' = [ctx EXCEPT !.running = 0, !.stopped[c] = TRUE]
    /\ UNCHANGED notContext

\* signalHandler(signal), once a context has installed it: running_ = 0.
\* Every context that exists at that moment has been told to stop.
BeatriceContext_signalHandler ==
    /\ \E c \in Contexts : ctx.pc[c] \notin {"none", "created"}
    /\ ctx.running # 0
    /\ ctx' = [ctx EXCEPT !.running = 0,
                          !.stopped = [c \in Contexts |-> @[c] \/ ctx.pc[c] # "none"]]
    /\ UNCHANGED notContext

NextContext ==
    \/ \E c \in Contexts : BeatriceContext_ctor(c)
    \/ \E c \in Contexts : BeatriceContext_initialize(c)
    \/ \E c \in Contexts : BeatriceContext_run(c)
    \/ \E c \in Contexts : BeatriceContext_runSingleThreaded_test(c)
    \/ \E c \in Contexts : BeatriceContext_runSingleThreaded_batch(c)
    \/ \E c \in Contexts : BeatriceContext_shutdown(c)
    \/ BeatriceContext_signalHandler

\* A backend of class k under test with nothing in flight: no capture
\* thread, no call in progress, no frame received, no XDP program, no DMA
\* buffer set, the clock at zero.
Quiet(k) ==
    /\ kind = k
    /\ ctl = "idle"
    /\ thread = "none"
    /\ cur = 0
    /\ rxSeq = <<>> /\ pulled = <<>> /\ pushed = <<>>
    /\ starts = 0
    /\ loader = <<>>
    /\ xdpAttached = {}
    /\ lastBind = NoBind
    /\ dma = DMA_ctor(k)
    /\ mem = NoMem
    /\ zc = <<>>
    /\ worker = WorkerIdle
    /\ clock = 0
    /\ stats = Statistics
    /\ seen = Statistics
    /\ loaded = 0
    /\ filters = EmptyMap
    /\ filterStats = FilterStats
    /\ verdict = NoVerdict
    /\ range = NoRange
    /\ registry = ProtocolRegistry_ctor
    /\ readers = [t \in Readers |-> ReaderIdle]
    /\ prior = [name |-> "", reg |-> ProtocolRegistry_ctor]
    /\ gets = [name \in ProtocolNames |-> 0]
    /\ parser = ProtocolParser_ctor
    /\ parse = NoParse
    /\ parses = [name \in ProtocolNames |-> 0]
    /\ pool = ThreadPool_ctor(MaxThreads)
    /\ ctx = NoContexts

\* The state after constructing a backend of class k.
Constructed(k) ==
    /\ Quiet(k)
    /\ call = [op |-> "ctor", result |-> "SUCCESS", tick |-> FALSE]
    /\ fds = {}
    /\ pkt = AF_PacketBackend_ctor
    /\ xdp = AF_XDPBackend_ctor
    /\ dpdk = DPDKBackend_ctor
    /\ pmd = PMDBackend_ctor
    /\ eal = EalDown

\* The state after constructing a backend of class k and a first
\* initialize() on interface eth0 that succeeded.
Initialized(k) ==
    /\ Quiet(k)
    /\ call = [op |-> "initialize", result |-> "SUCCESS", tick |-> TRUE]
    /\ fds = IF k = "AF_PACKET" THEN {1} ELSE {}
    /\ pkt = IF k = "AF_PACKET"
             THEN [AF_PacketBackend_ctor EXCEPT !.interface = "eth0", !.socketFd = 1,
                                                !.nonblock = TRUE,
                                                !.initialized = TRUE]
             ELSE AF_PacketBackend_ctor
    /\ xdp = IF k = "AF_XDP"
             THEN [AF_XDPBackend_ctor EXCEPT !.interface = "eth0", !.initialized = TRUE]
             ELSE AF_XDPBackend_ctor
    /\ dpdk = IF k = "DPDK"
              THEN [DPDKBackend_ctor EXCEPT !.interface = "eth0", !.initialized = TRUE,
                                            !.dpdkInitialized = TRUE]
              ELSE DPDKBackend_ctor
    /\ pmd = IF k = "PMD"
             THEN [PMDBackend_ctor EXCEPT !.interface = "eth0", !.initialized = TRUE,
                                          !.dpdkInitialized = TRUE,
                                          !.portInitialized = TRUE]
             ELSE PMDBackend_ctor
    /\ eal = IF k \in {"DPDK", "PMD"}
             THEN [up |-> TRUE, port |-> "configured", inits |-> 1]
                                     ELSE EalDown

Init == \E k \in Kinds : Constructed(k) /\ xsk = NoXsk

Next ==
    \/ NextAF_Packet
    \/ NextAF_XDP
    \/ NextDPDK
    \/ NextPMD

Spec == Init /\ [][Next]_vars

InitXdpProgram == Constructed("AF_XDP") /\ xsk = NoXsk

SpecXdpProgram == InitXdpProgram /\ [][NextXdpProgram]_vars

SpecLoader == InitXdpProgram /\ [][NextLoader]_vars

\* The ring protocol starts where initializeRingBuffers() has mapped the
\* four rings of a socket and is about to seed the Fill ring.
InitRing ==
    /\ Constructed("AF_XDP")
    /\ \E size \in RingSizes, numBuffers \in 1..MaxBuffers :
        xsk = [pc |-> "seed", numBuffers |-> numBuffers,
               fill |-> NewRing(size), completion |-> NewRing(size),
               rx |-> NewRing(size),
               umem |-> [c \in 0..(numBuffers - 1) |-> 0],
               oob |-> FALSE, frames |-> 0, packetQueue |-> <<>>]

SpecRing == InitRing /\ [][NextRing]_vars

\* Stopping a capture: the lifecycle and the capture thread of every
\* backend, and the blocking mode of the AF_PACKET socket.
NextStop ==
    \/ AF_PacketBackend_setBlockingMode
    \/ AF_PacketBackend_initialize
    \/ AF_PacketBackend_start
    \/ AF_PacketBackend_stop
    \/ AF_PacketBackend_stop_joined
    \/ AF_PacketBackend_loop_test
    \/ AF_PacketBackend_recv
    \/ AF_PacketBackend_enqueue
    \/ AF_PacketBackend_invoke_callback
    \/ AF_XDPBackend_initialize
    \/ AF_XDPBackend_start
    \/ AF_XDPBackend_stop
    \/ AF_XDPBackend_stop_joined
    \/ AF_XDPBackend_loop_test
    \/ AF_XDPBackend_loop_body
    \/ AF_XDPBackend_callback_test
    \/ AF_XDPBackend_callback_invoke
    \/ AF_XDPBackend_setPacketCallback
    \/ AF_XDPBackend_count_packets
    \/ AF_XDPBackend_count_bytes
    \/ DPDKBackend_initialize
    \/ DPDKBackend_start
    \/ DPDKBackend_stop
    \/ DPDKBackend_stop_joined
    \/ DPDKBackend_loop_test
    \/ DPDKBackend_processPackets
    \/ PMDBackend_initialize
    \/ PMDBackend_start
    \/ PMDBackend_stop
    \/ PMDBackend_stop_joined
    \/ PMDBackend_loop_test
    \/ PMDBackend_processPackets

\* The scheduler runs the capture thread and the thread blocked in join():
\* every step they can take by themselves is eventually taken.  The arrival
\* of a frame and a socket error are up to the network, so recv() is only
\* required to return when it can report EAGAIN.
FairStop ==
    /\ WF_vars(AF_PacketBackend_loop_test)
    /\ WF_vars(AF_PacketBackend_recv_outcome("again"))
    /\ WF_vars(AF_PacketBackend_enqueue)
    /\ WF_vars(AF_PacketBackend_invoke_callback)
    /\ WF_vars(AF_PacketBackend_stop_joined)
    /\ WF_vars(AF_XDPBackend_loop_test)
    /\ WF_vars(AF_XDPBackend_loop_body)
    /\ WF_vars(AF_XDPBackend_callback_test)
    /\ WF_vars(AF_XDPBackend_callback_invoke)
    /\ WF_vars(AF_XDPBackend_count_packets)
    /\ WF_vars(AF_XDPBackend_count_bytes)
    /\ WF_vars(AF_XDPBackend_stop_joined)
    /\ WF_vars(DPDKBackend_loop_test)
    /\ WF_vars(DPDKBackend_processPackets)
    /\ WF_vars(DPDKBackend_stop_joined)
    /\ WF_vars(PMDBackend_loop_test)
    /\ WF_vars(PMDBackend_processPackets)
    /\ WF_vars(PMDBackend_stop_joined)

SpecStop == Init /\ [][NextStop]_vars /\ FairStop

\* The capture thread on a quiet network: no frame arrives, no socket error
\* occurs, the loop runs until running_ is clear.
QuietCapture ==
    \/ AF_PacketBackend_loop_test
    \/ AF_PacketBackend_recv_outcome("again")
    \/ AF_XDPBackend_loop_test
    \/ AF_XDPBackend_loop_body /\ rxSeq' = rxSeq
    \/ DPDKBackend_loop_test
    \/ DPDKBackend_processPackets /\ rxSeq' = rxSeq
    \/ PMDBackend_loop_test
    \/ PMDBackend_processPackets /\ rxSeq' = rxSeq

\* The DMA buffer set over the lifecycle of a backend that has been
\* initialized.
InitDma == \E k \in Kinds : Initialized(k) /\ xsk = NoXsk

NextDma ==
    \/ AF_PacketBackend_start
    \/ AF_PacketBackend_stop
    \/ AF_PacketBackend_stop_joined
    \/ AF_PacketBackend_dtor
    \/ AF_PacketBackend_dtor_joined
    \/ AF_XDPBackend_start
    \/ AF_XDPBackend_stop
    \/ AF_XDPBackend_stop_joined
    \/ AF_XDPBackend_dtor
    \/ AF_XDPBackend_dtor_joined
    \/ DPDKBackend_start
    \/ DPDKBackend_stop
    \/ DPDKBackend_stop_joined
    \/ DPDKBackend_dtor
    \/ DPDKBackend_dtor_joined
    \/ PMDBackend_start
    \/ PMDBackend_stop
    \/ PMDBackend_stop_joined
    \/ PMDBackend_dtor
    \/ PMDBackend_dtor_joined
    \/ QuietCapture
    \/ enableZeroCopy
    \/ enableDMAAccess
    \/ setDMABufferSize
    \/ allocateDMABuffers
    \/ freeDMABuffers

SpecDma == InitDma /\ [][NextDma]_vars

\* The configuration and the zero-copy and DMA operations on a backend that
\* is not capturing: one that was only constructed, or one that initialize()
\* has set up.
InitFresh == \E k \in Kinds : (Constructed(k) \/ Initialized(k)) /\ xsk = NoXsk

NextFresh ==
    \/ updateConfig_test
    \/ updateConfig_assign
    \/ enableZeroCopy
    \/ enableDMAAccess
    \/ setDMABufferSize
    \/ allocateDMABuffers
    \/ freeDMABuffers

SpecFresh == InitFresh /\ [][NextFresh]_vars

\* updateConfig() from a second thread against start() and stop().
NextConfig ==
    \/ AF_PacketBackend_start
    \/ AF_PacketBackend_stop
    \/ AF_PacketBackend_stop_joined
    \/ AF_XDPBackend_start
    \/ AF_XDPBackend_stop
    \/ AF_XDPBackend_stop_joined
    \/ DPDKBackend_start
    \/ DPDKBackend_stop
    \/ DPDKBackend_stop_joined
    \/ PMDBackend_start
    \/ PMDBackend_stop
    \/ PMDBackend_stop_joined
    \/ QuietCapture
    \/ updateConfig_test
    \/ updateConfig_assign

SpecConfig == InitDma /\ [][NextConfig]_vars

\* A capture with frames arriving, and readers of the statistics.
NextStats ==
    \/ AF_PacketBackend_start
    \/ AF_PacketBackend_stop
    \/ AF_PacketBackend_stop_joined
    \/ AF_PacketBackend_loop_test
    \/ AF_PacketBackend_recv
    \/ AF_PacketBackend_enqueue
    \/ AF_PacketBackend_invoke_callback
    \/ AF_XDPBackend_start
    \/ AF_XDPBackend_stop
    \/ AF_XDPBackend_stop_joined
    \/ AF_XDPBackend_loop_test
    \/ AF_XDPBackend_loop_body
    \/ AF_XDPBackend_callback_test
    \/ AF_XDPBackend_callback_invoke
    \/ AF_XDPBackend_setPacketCallback
    \/ AF_XDPBackend_count_packets
    \/ AF_XDPBackend_count_bytes
    \/ DPDKBackend_start
    \/ DPDKBackend_stop
    \/ DPDKBackend_stop_joined
    \/ DPDKBackend_loop_test
    \/ DPDKBackend_processPackets
    \/ PMDBackend_start
    \/ PMDBackend_stop
    \/ PMDBackend_stop_joined
    \/ PMDBackend_loop_test
    \/ PMDBackend_processPackets
    \/ getStatistics
    \/ resetStatistics

SpecStats == InitDma /\ [][NextStats]_vars

\* Pulling starts on a backend that has been initialized.
InitPull == \E k \in {"AF_PACKET", "DPDK", "PMD"} : Initialized(k) /\ xsk = NoXsk

SpecPull == InitPull /\ [][NextPull]_vars

\* ================================================================ claims
\* An API call named op returns in this step.
\* A filter chain from its construction on.
SpecFilter == Constructed("AF_PACKET") /\ xsk = NoXsk /\ [][NextFilter]_vars

\* CIDR containment for every address, network and prefix length drawn from
\* Addresses and PrefixLens.
SpecRange == Constructed("AF_PACKET") /\ xsk = NoXsk /\ [][NextRange]_vars

\* The registry singleton from its construction on, with MaxReaders threads
\* looking protocols up.
SpecRegistry == Constructed("AF_PACKET") /\ xsk = NoXsk /\ [][NextRegistry]_vars

\* A parser from its construction on, parsing by protocol name.
SpecParser == Constructed("AF_PACKET") /\ xsk = NoXsk /\ [][NextParser]_vars

\* A parser parsing packets from ParserPackets with definitions from
\* ParserDefinitions.
SpecParse == Constructed("AF_PACKET") /\ xsk = NoXsk /\ [][NextParse]_vars

\* An initialized AF_XDP backend whose application loads and unloads the
\* XDP program while it starts and stops the capture.
NextControl ==
    \/ AF_XDPBackend_start
    \/ AF_XDPBackend_stop
    \/ AF_XDPBackend_stop_joined
    \/ AF_XDPBackend_loop_test
    \/ AF_XDPBackend_loop_body
    \/ AF_XDPBackend_callback_test
    \/ AF_XDPBackend_callback_invoke
    \/ AF_XDPBackend_setPacketCallback
    \/ AF_XDPBackend_count_packets
    \/ AF_XDPBackend_count_bytes
    \/ AF_XDPBackend_loadXdpProgram
    \/ AF_XDPBackend_unloadXdpProgram

SpecControl == Initialized("AF_XDP") /\ xsk = NoXsk /\ [][NextControl]_vars

\* start() of AF_PacketBackend or AF_XDPBackend called by a second
\* application thread while the first may be in start() or stop(): the
\* tests of initialized_ and running_.  No lock is taken, so the launch
\* that follows is a step of its own.
start_test ==
    /\ kind \in {"AF_PACKET", "AF_XDP"}
    /\ worker.pc = "idle" /\ ctl \in {"idle", "stop_join"}
    /\ IF ~IsInitialized
       THEN /\ call' = Return("start", "INITIALIZATION_FAILED")
            /\ UNCHANGED worker
       ELSE IF IsRunning
       THEN /\ call' = Return("start", "SUCCESS")
            /\ UNCHANGED worker
       ELSE /\ worker' = [pc |-> "launch"]
            /\ UNCHANGED call
    /\ UNCHANGED <<libVars, kind, ctl, fds, thread, cur, rxSeq, pulled, pushed, starts,
                   pkt, xdpVars, dpdkVars, xsk, dmaVars, clock, statVars>>

\* start(): running_ = true; processingThread_ = std::thread(...).  The new
\* thread is started by the constructor; the move assignment to a handle
\* that is still joinable calls std::terminate(), which ends the process
\* with all its threads.
start_launch ==
    /\ worker.pc = "launch" /\ starts < MaxStarts
    /\ pkt' = IF kind = "AF_PACKET" THEN [pkt EXCEPT !.running = TRUE] ELSE pkt
    /\ xdp' = IF kind = "AF_XDP" THEN [xdp EXCEPT !.running = TRUE] ELSE xdp
    /\ starts' = starts + 1
    /\ worker' = WorkerIdle
    /\ IF thread = "none"
       THEN /\ thread' = "loop"
            /\ call' = Return("start", "SUCCESS")
            /\ UNCHANGED ctl
       ELSE /\ thread' = "exited"
            /\ ctl' = "terminated"
            /\ call' = Return("start", "terminate")
    /\ UNCHANGED <<libVars, kind, fds, cur, rxSeq, pulled, pushed,
                   loader, xdpAttached, lastBind, dpdkVars, xsk, dmaVars, clock, statVars>>

\* start() and stop() called by two application threads on a backend that
\* has been initialized.
NextRace ==
    \/ AF_PacketBackend_start
    \/ AF_PacketBackend_stop
    \/ AF_PacketBackend_stop_joined
    \/ AF_PacketBackend_loop_test
    \/ AF_PacketBackend_recv
    \/ AF_PacketBackend_enqueue
    \/ AF_PacketBackend_invoke_callback
    \/ AF_XDPBackend_start
    \/ AF_XDPBackend_stop
    \/ AF_XDPBackend_stop_joined
    \/ AF_XDPBackend_loop_test
    \/ AF_XDPBackend_loop_body
    \/ AF_XDPBackend_callback_test
    \/ AF_XDPBackend_callback_invoke
    \/ AF_XDPBackend_count_packets
    \/ AF_XDPBackend_count_bytes
    \/ AF_PacketBackend_setPacketCallback
    \/ AF_XDPBackend_setPacketCallback
    \/ start_test
    \/ start_launch

\* The push callback of a backend that has been initialized: the
\* application starts and stops the capture and installs and removes the
\* callback.
InitCallback == \E k \in {"AF_PACKET", "AF_XDP"} : Initialized(k) /\ xsk = NoXsk

NextCallback ==
    \/ AF_PacketBackend_start
    \/ AF_PacketBackend_stop
    \/ AF_PacketBackend_stop_joined
    \/ AF_PacketBackend_loop_test
    \/ AF_PacketBackend_recv
    \/ AF_PacketBackend_enqueue
    \/ AF_PacketBackend_invoke_callback
    \/ AF_PacketBackend_setPacketCallback
    \/ AF_PacketBackend_removePacketCallback
    \/ AF_XDPBackend_start
    \/ AF_XDPBackend_stop
    \/ AF_XDPBackend_stop_joined
    \/ AF_XDPBackend_loop_test
    \/ AF_XDPBackend_loop_body
    \/ AF_XDPBackend_callback_test
    \/ AF_XDPBackend_callback_invoke
    \/ AF_XDPBackend_count_packets
    \/ AF_XDPBackend_count_bytes
    \/ AF_XDPBackend_setPacketCallback
    \/ AF_XDPBackend_removePacketCallback
    \/ AF_XDPBackend_removePacketCallback_done

SpecCallback == InitCallback /\ [][NextCallback]_vars

\* A thread pool from its construction on.
SpecPool == Constructed("AF_PACKET") /\ xsk = NoXsk /\ [][NextPool]_vars /\ FairPool

\* The capture contexts of one process, from before the first is created.
SpecContext == Constructed("AF_PACKET") /\ xsk = NoXsk /\ [][NextContext]_vars

SpecRace == InitCallback /\ [][NextRace]_vars

Returns(op) == call' # call /\ call'.op = op

IsPrefix(s, t) == Len(s) <= Len(t) /\ SubSeq(t, 1, Len(s)) = s

\* s lists packets of the RX sequence in RX order, each at most once.
InRxOrder(s) ==
    /\ \A i \in 1..Len(s) : \E k \in 1..Len(rxSeq) : rxSeq[k] = s[i]
    /\ \A i, j \in 1..Len(s) :
        i < j => \A k, l \in 1..Len(rxSeq) :
                    (rxSeq[k] = s[i] /\ rxSeq[l] = s[j]) => k < l


\* ---------------------------------------------------------------- C1
\* C1: the AF_XDP socket is bound only while a program is attached to the
\* interface: whenever bind() has succeeded, the kernel had a program
\* attached to the bound interface at the moment of the bind.
C1_BindOnlyWhenAttached ==
    lastBind.done => /\ lastBind.programAttached
                     /\ lastBind.interface \in ExistingInterfaces

\* A loadXdpProgram that attached the program and bound the socket.
C1_Witness ==
    /\ call.op = "loadXdpProgram" /\ call.result = "SUCCESS"
    /\ lastBind.done /\ lastBind.interface = xdp.interface
    /\ xdp.interface \in xdpAttached
    /\ xdp.socket >= 0

\* ---------------------------------------------------------------- C2
\* C2: on the AF_XDP backend, start() called after initialize with no
\* program attached to the interface returns an error and does not set
\* running_.
C2_StartWithoutProgramFails ==
    [][(/\ kind = "AF_XDP"
        /\ Returns("start")
        /\ xdp.initialized /\ ~xdp.running
        /\ ~XDPLoader_isProgramAttached(loader, xdp.interface))
       => (call'.result # "SUCCESS" /\ ~xdp'.running)]_vars

\* ---------------------------------------------------------------- C3
\* C3: in every ring the producer index is at most one ring size ahead of
\* the consumer index, and no descriptor is written at an index outside
\* the ring.
C3_ProducerNeverLaps ==
    xsk.pc # "unmapped" =>
        /\ Used(xsk.fill) <= xsk.fill.size
        /\ Used(xsk.completion) <= xsk.completion.size
        /\ Used(xsk.rx) <= xsk.rx.size
        /\ ~xsk.oob

\* ---------------------------------------------------------------- C4
\* C4: the bytes of every packet held in the packet queue are the bytes it
\* was built from, whatever the kernel has since done with the UMEM chunk
\* the frame arrived in.
C4_PacketBytesStable ==
    xsk.pc # "unmapped" =>
        \A i \in 1..Len(xsk.packetQueue) :
            PacketBytes(xsk.packetQueue[i], xsk.umem) = xsk.packetQueue[i].captured

\* A queued packet whose UMEM chunk the kernel has rewritten with another
\* frame since the packet was built.
C4_Witness ==
    /\ xsk.pc # "unmapped"
    /\ \E i \in 1..Len(xsk.packetQueue) :
        /\ xsk.packetQueue[i].backing = "heap"
        /\ xsk.umem[xsk.packetQueue[i].addr] # xsk.packetQueue[i].captured

\* ---------------------------------------------------------------- C5
\* The packet the AF_PACKET capture thread has received and not yet queued.
InFlight == IF kind = "AF_PACKET" /\ thread = "enqueue" THEN <<cur>> ELSE <<>>

C6_NoDescriptorLeftOpen ==
    ctl = "destroyed" => fds = {}

\* ---------------------------------------------------------------- C7
\* C7: start() on a backend that is not initialized returns an error,
\* launches no capture thread and changes neither the backend nor the
\* kernel or framework state.
C7_StartInFreshRefused ==
    [][(Returns("start") /\ ~IsInitialized)
       => /\ call'.result = "INITIALIZATION_FAILED"
          /\ UNCHANGED <<thread, starts, fds, pkt, xdp, dpdk, pmd, eal>>]_vars

\* start() has just been refused on a backend whose initialize had failed
\* after the EAL was initialized.
C7_Witness ==
    /\ call.op = "start" /\ call.result = "INITIALIZATION_FAILED"
    /\ kind = "PMD" /\ ~pmd.initialized /\ pmd.dpdkInitialized
    /\ thread = "none" /\ ~pmd.running

\* ---------------------------------------------------------------- C8
\* C8: start() on a stopped backend (initialized, started before, not
\* running) succeeds and launches the capture thread, unless the driver
\* refuses to start a port that can be started.
C8_RestartAfterStopSucceeds ==
    [][(Returns("start") /\ IsInitialized /\ ~IsRunning /\ starts >= 1)
       => \/ (call'.result = "SUCCESS" /\ thread' = "loop" /\ IsRunning')
          \/ (eal.port = "configured" /\ GetLastError' = "start")]_vars

\* ---------------------------------------------------------------- C9
\* C9: while the backend is not initialized, the operations permitted in
\* Fresh (setDPDKArgs, addVirtualDevice) succeed, also after a failed
\* initialize.
C9_FreshOperationsStillPermitted ==
    [][((Returns("setDPDKArgs") \/ Returns("addVirtualDevice")) /\ ~IsInitialized)
       => call'.result = "SUCCESS"]_vars

\* ---------------------------------------------------------------- C10
\* The AF_PACKET capture thread has left its loop on a terminal recv()
\* error and the backend has not been stopped since.
TerminalError == kind = "AF_PACKET" /\ pkt.running /\ thread = "exited"

\* C10: after a terminal RX error, and until the backend is stopped,
\* isHealthy() is false and lastError is not empty.
C10_UnhealthyAfterTerminalError ==
    TerminalError => (~AF_PacketBackend_isHealthy /\ pkt.lastError # "")

\* C11: a pull that was blocked in wait_for when stop() cleared running_
\* returns once the notification has woken it, while the backend is still
\* stopped: it does not go back to waiting for the rest of its timeout.
C11_StopWakesWaiters ==
    [][(worker.pc = "check" /\ worker.cancelled /\ ~IsRunning)
          => worker'.pc \notin {"blocking", "blocked"}]_vars

\* C12: a stop() that found the backend running and is waiting in join()
\* eventually returns, with the backend stopped, whether or not another
\* frame arrives.
C12_StopTerminates == (ctl = "stop_join") ~> (ctl = "idle" /\ ~IsRunning)

\* The zero-copy and DMA operations of a backend.
DmaOperations ==
    {"enableZeroCopy", "enableDMAAccess", "setDMABufferSize",
     "allocateDMABuffers", "freeDMABuffers"}

\* C13: while the backend is Running, each of the five zero-copy/DMA
\* operations returns an error and leaves the zero-copy flag, the DMA
\* members and the mapped memory as they were.
C13_RunningRefusesDma ==
    [][(IsRunning /\ \E op \in DmaOperations : Returns(op))
          => (call'.result # "SUCCESS" /\ dma' = dma /\ mem' = mem /\ fds' = fds)]_vars

\* The DMA buffer set is absent: base null, count 0, device closed.
DmaAbsent ==
    dma.dmaBuffers = "null" /\ dma.dmaBufferCount = 0 /\ dma.dmaFd = NoFd

\* The DMA buffer set is coherent: a mapped base, a count that with the
\* buffer size gives the length of the mapping, and the device open in the
\* two classes that map one.
DmaCoherent ==
    /\ dma.dmaBuffers = "mapped"
    /\ dma.dmaBufferCount > 0
    /\ mem.mapped = dma.dmaBufferCount * dma.dmaBufferSize
    /\ kind \in {"AF_PACKET", "AF_XDP"} => dma.dmaFd \in fds

\* C14: in every reachable state, after failed allocations too, the DMA
\* buffer set is absent or coherent.
C14_DmaAbsentOrCoherent == DmaAbsent \/ DmaCoherent

\* C15: freeDMABuffers() on an allocated buffer set undoes the allocation:
\* the whole mapped region is unmapped and nothing else, the device is
\* closed, base and count are cleared.
C15_FreeInvertsAllocate ==
    [][(Returns("freeDMABuffers") /\ dma.dmaBuffers = "mapped")
          => /\ mem' = NoMem
             /\ dma' = [dma EXCEPT !.dmaBuffers = "null", !.dmaBufferCount = 0,
                                   !.dmaFd = NoFd]
             /\ fds' = fds \ {dma.dmaFd}]_vars

\* C18: with no start() in between, enableZeroCopy(true) followed by
\* enableZeroCopy(false) leaves the zero-copy flag as it is on a backend of
\* the same class on which neither call was made.
C18_ZeroCopyToggleIsNeutral ==
    (zc = <<TRUE, FALSE>> /\ starts = 0)
        => dma.zeroCopyEnabled = DMA_ctor(kind).zeroCopyEnabled

\* C16: from the success of start() until stop() has returned, getConfig()
\* keeps returning the same value, whatever updateConfig() calls another
\* thread makes meanwhile.
C16_ConfigImmutableWhileRunning ==
    [][((IsRunning \/ ctl = "stop_join") /\ (IsRunning' \/ ctl' = "stop_join"))
          => getConfig' = getConfig]_vars

\* The configuration change and the toggles that a Fresh backend refuses.
FreshRefused ==
    {"updateConfig", "enableZeroCopy", "enableDMAAccess", "setDMABufferSize",
     "allocateDMABuffers"}

\* C17: before any successful initialize(), updateConfig, enableZeroCopy,
\* enableDMAAccess, setDMABufferSize and allocateDMABuffers return an error
\* and change neither the configuration nor the zero-copy and DMA state.
C17_FreshRefusesChanges ==
    [][(~IsInitialized /\ \E op \in FreshRefused : Returns(op))
          => /\ call'.result # "SUCCESS"
             /\ getConfig' = getConfig
             /\ dma' = dma /\ mem' = mem /\ fds' = fds]_vars

\* C20: a nextPacket(timeout) or getPackets(max, timeout) that returns
\* none/empty does so no later than timeout after it was called; with a
\* timeout of 0 that is at once.
C20_PullHonoursTimeout ==
    [][(worker.pc \in {"check", "poll"} /\ worker'.pc = "idle"
          /\ call' # call /\ call'.result = "none")
          => clock <= worker.limit]_vars

\* C19: a getStatistics() snapshot is, counter by counter, at least the
\* previous snapshot taken since the last resetStatistics(), whatever the
\* capture thread does in between.
C19_StatisticsMonotone ==
    [][Returns("getStatistics")
          => \A c \in DOMAIN Statistics : seen'[c] >= seen[c]]_vars

\* getStatistics() has just returned a snapshot in which two frames are
\* counted, while the capture thread runs.
C19_Witness ==
    /\ call.op = "getStatistics"
    /\ seen.packetsCaptured >= 2
    /\ IsRunning /\ thread \notin {"none", "exited"}

\* C21: when unloadProgram() or the cleanup() of the destructor returns and
\* has left no program tracked, no descriptor that loadProgram() opened is
\* still open.
C21_LoaderClosesDescriptors ==
    [][((Returns("unloadProgram") \/ Returns("cleanup")) /\ loader' = <<>>)
          => fds' = {}]_vars

\* C22: after a detachProgram() that took the program off an interface,
\* isProgramAttached() of that interface is false.
C22_DetachClearsAttached ==
    [][(Returns("detachProgram") /\ call'.result = "SUCCESS")
          => \A interface \in xdpAttached \ xdpAttached' :
                ~XDPLoader_isProgramAttached(loader', interface)]_vars

\* C23: loadProgram() never fails with the error of a pinning step: a
\* pinMap() that fails does not make it fail.
C23_PinningFailureNotFatal ==
    [][Returns("loadProgram") => call'.result # "INTERNAL_ERROR"]_vars

\* C24: across constructions, initialize calls, failed initializations and
\* teardowns of the DPDK and PMD backends, rte_eal_init is invoked at most
\* once in the process.
C24_EalInitializedOnce == eal.inits <= 1

\* The enabled filters of the chain that reject the packet.
Rejecting(fs, packet) ==
    {name \in EnabledFilters(fs) :
        PacketFilter_filterResult(packet, fs[name]) = "false"}

\* C25: an applyFilters call that returns a result has evaluated enabled
\* filters in descending priority and stopped at the first that rejects:
\* passed=false names a rejecting filter that no rejecting filter outranks
\* and that is the last one evaluated; passed=true means that no enabled
\* filter rejects, that all of them ran and that the last one is named.
C25_FirstRejectionDecides ==
    [][(Returns("applyFilters") /\ call'.result # "exception") =>
        LET r == verdict'
            prio(name) == filters[name].config.priority
            rejecting == Rejecting(filters, r.packet)
        IN  /\ \A i, j \in 1..Len(r.ran) : i < j => prio(r.ran[i]) >= prio(r.ran[j])
            /\ r.passed <=> rejecting = {}
            /\ ~r.passed =>
                 /\ r.filterName \in rejecting
                 /\ \A name \in rejecting : prio(name) <= prio(r.filterName)
                 /\ r.ran[Len(r.ran)] = r.filterName
            /\ r.passed =>
                 /\ {r.ran[i] : i \in 1..Len(r.ran)} = EnabledFilters(filters)
                 /\ r.filterName = IF r.ran = <<>> THEN "" ELSE r.ran[Len(r.ran)]]_vars

\* A packet was rejected by the first of two enabled filters and the second,
\* of lower priority, was not evaluated.
C25_Witness ==
    /\ call.op = "applyFilters" /\ call.result = "rejected"
    /\ Cardinality(EnabledFilters(filters)) = 2
    /\ Len(verdict.ran) = 1
    /\ \E name \in EnabledFilters(filters) :
          filters[name].config.priority < filters[verdict.filterName].config.priority

\* C26: applyFilters on a chain with no enabled entry passes the packet and
\* leaves the per-filter counters as they were: no new entry, no changed
\* count.
C26_EmptyChainCreditsNoFilter ==
    [][(Returns("applyFilters") /\ EnabledFilters(filters) = {}) =>
        /\ verdict'.passed
        /\ filterStats'.filterCounts = filterStats.filterCounts]_vars

\* C27: when a custom predicate throws, applyFilters returns a result that
\* rejects the packet in the name of that filter, and the statistics count
\* the packet.
C27_ThrowingPredicateRejects ==
    [][(/\ Returns("applyFilters")
        /\ verdict'.ran # <<>>
        /\ PacketFilter_filterResult(verdict'.packet,
                                     filters[verdict'.ran[Len(verdict'.ran)]]) = "throw")
       => /\ call'.result = "rejected"
          /\ verdict'.filterName = verdict'.ran[Len(verdict'.ran)]
          /\ filterStats'.packetsProcessed = filterStats.packetsProcessed + 1]_vars

\* C28: a range A.B.C.D/32 contains the address A.B.C.D and no other, and a
\* range with prefix length 0 contains every address.
C28_CidrBoundaries ==
    range.result # "none" =>
        /\ range.prefixLen = 32 =>
              (range.result = "true" <=> range.ip = range.network)
        /\ range.prefixLen = 0 => range.result = "true"

\* C29 as stated: from every registry state, registerProtocol(P) directly
\* followed by unregisterProtocol(P.name) leaves the registered names, their
\* definitions and their usage counts as they were before the two calls.
C29_RegisterUnregisterRestores ==
    [][(/\ call.op = "registerProtocol"
        /\ Returns("unregisterProtocol")
        /\ prior'.name = prior.name)
       => registry' = prior.reg]_vars

\* C29 for a name that was not registered: registerProtocol(P) that returned
\* true, directly followed by unregisterProtocol(P.name), leaves the
\* registered names, their definitions and their usage counts as they were
\* before the two calls.
C29_FreshRegisterUnregisterRestores ==
    [][(/\ call.op = "registerProtocol" /\ call.result = "true"
        /\ Returns("unregisterProtocol")
        /\ prior'.name = prior.name)
       => registry' = prior.reg]_vars

\* A protocol was registered into a registry that holds another protocol
\* with a usage count, and was unregistered by the next call.
C29_Witness ==
    /\ call.op = "unregisterProtocol" /\ call.result = "true"
    /\ registry = prior.reg
    /\ prior.name \notin DOMAIN registry.protocols
    /\ \E name \in DOMAIN registry.usageCount : registry.usageCount[name] > 0

\* C30: whenever no thread is inside getProtocol, the usage count of every
\* registered protocol is the number of getProtocol calls that returned it.
C30_UsageCountsExact ==
    NoReaderInside =>
        \A name \in ProtocolNames \cap DOMAIN registry.protocols :
            registry.usageCount[name] = gets[name]

\* C31: after any sequence of parsePacket calls the statistics count every
\* call: totalPacketsParsed is the number of calls, successfulParses +
\* failedParses = totalPacketsParsed, protocolUsageCount[P] is the number of
\* calls made with P, and averageParseTime lies between minParseTime and
\* maxParseTime.
C31_ParserStatsCountEveryParse ==
    LET s == parser.stats
    IN  /\ parser.alive
        /\ s.totalPacketsParsed = parses["tcp"] + parses["sip"]
        /\ s.successfulParses + s.failedParses = s.totalPacketsParsed
        /\ \A name \in ProtocolNames :
              parses[name] = IF name \in DOMAIN s.protocolUsageCount
                             THEN s.protocolUsageCount[name] ELSE 0
        /\ s.totalPacketsParsed > 0 =>
              /\ s.minParseTime <= s.averageParseTime
              /\ s.averageParseTime <= s.maxParseTime

\* C36: in the ParseResult of every parsePacket call, each field that the
\* protocol marks required is present with valid = TRUE, or the status is
\* not SUCCESS.
C36_RequiredFieldsValidOrFailed ==
    parse.result.status = "SUCCESS" =>
        \A i \in 1..Len(parse.protocol.fields) :
            parse.protocol.fields[i].required =>
                /\ FieldName(i) \in DOMAIN parse.result.fields
                /\ parse.result.fields[FieldName(i)].valid

\* A packet was parsed with success under a definition whose second field
\* is required and ends beyond the first, and a packet too short for a
\* required field was refused.
C36_Witness ==
    /\ call.op = "parsePacket"
    /\ Len(parse.protocol.fields) = 2
    /\ parse.protocol.fields[2].required
    /\ parse.protocol.fields[2].offset + parse.protocol.fields[2].length
          > parse.protocol.fields[1].offset + parse.protocol.fields[1].length
    /\ parse.result.status = "SUCCESS"
    /\ parse.result.fields["f2"].valid
    /\ Len(parse.packet) = parse.protocol.fields[2].offset + parse.protocol.fields[2].length

\* C32: while an AF_XDP backend is running and its capture thread is alive,
\* a step that is not the capture thread's leaves the socket, the UMEM and
\* the ring pointers as they are.
C32_OnlyCaptureThreadWritesRx ==
    [][(/\ kind = "AF_XDP" /\ xdp.running
        /\ thread \in {"loop", "body", "callback", "invoke", "count", "count_bytes"}
        /\ thread' = thread)
       => /\ xdp'.socket = xdp.socket
          /\ xdp'.umem = xdp.umem
          /\ xdp'.rings = xdp.rings]_vars

\* The capture thread reads or invokes the callback slot in this step.
ReadsCallbackSlot ==
    /\ thread \in {"callback", "invoke"}
    /\ thread' # thread

\* C33: the capture thread never reads or invokes the callback slot while
\* removePacketCallback is writing it, and it invokes a callback only
\* while one is installed.
C33_CallbackSlotSerialized ==
    [][/\ ReadsCallbackSlot => ctl # "callback_write"
       /\ pushed' # pushed =>
             IF kind = "AF_XDP" THEN xdp.packetCallback ELSE pkt.packetCallback]_vars

\* C34: every update of the capture counters is atomic with respect to
\* getStatistics and resetStatistics: a step that changes packetsCaptured
\* is a reset, or adds one to the value the counter holds at that moment,
\* and bytesCaptured grows by no more than the frame just received.
C34_StatisticsUpdatesAtomic ==
    [][\/ Returns("resetStatistics")
       \/ /\ stats'.packetsCaptured \in {stats.packetsCaptured, stats.packetsCaptured + 1}
          /\ stats'.bytesCaptured >= stats.bytesCaptured
          /\ stats'.bytesCaptured <= stats.bytesCaptured + FrameLength(Len(rxSeq'))]_vars

\* A capacity below the number of frames that arrive during a capture.
QueueCapacity == MaxPackets - 1

\* C35: the queue between the capture thread and the pulling threads never
\* holds more packets than a fixed capacity, however many frames arrive and
\* whether or not anybody pulls.
C35_PacketQueueBounded ==
    /\ Len(pkt.packetQueue) <= QueueCapacity
    /\ Len(xdp.packetQueue) <= QueueCapacity

\* The number of live descriptors of ring r (those between consumer and
\* producer) that name chunk c.
LiveDescriptors(r, c) ==
    Cardinality({k \in 0..(Used(r) - 1) :
                    r.desc[((r.consumer + k) % IndexModulus) % r.size].addr = c})

\* C37: once the rings are mapped and seeded (the seeding having stayed
\* within the Fill ring), no UMEM chunk is named by more than one live
\* descriptor of the Fill ring and the RX ring together: a chunk posted to
\* the kernel is not posted again, and a chunk in an RX descriptor that
\* userspace has not consumed is not in the Fill ring.
C37_ChunkHasOneOwner ==
    (xsk.pc \in {"rx", "completion", "refill"} /\ ~xsk.oob) =>
        \A c \in 0..(xsk.numBuffers - 1) :
            LiveDescriptors(xsk.fill, c) + LiveDescriptors(xsk.rx, c) <= 1

\* C38: a capture thread is launched only while the backend's thread handle
\* holds no thread, whichever application thread calls start() and whatever
\* the other one is doing.
C38_OneCaptureThread ==
    [][starts' > starts => thread = "none"]_vars

\* C39: every task that submit() has accepted is eventually run by a
\* worker, unless the pool is shut down first.
C39_AcceptedTaskRuns ==
    \A t \in Tasks : (pool.accepted >= t) ~> (t \in pool.executed \/ pool.shutdown)

\* C40: the run() of a context that has not been shut down, and that no
\* signal has reached, does not leave its loop.
C40_RunStatePerContext ==
    [][\A c \in Contexts :
          (ctx.pc[c] = "run" /\ ~ctx.stopped[c]) => ctx'.pc[c] # "returned"]_vars

====
